---- MODULE Spec2Model ----
(***************************************************************************)
(* Versioned artifact memory of the Data-Analysis-Agent: the MemoryStore   *)
(* (memory/store.py), the version ledger helpers and the four request      *)
(* handlers of the FastAPI router (api/app.py), and the part of the        *)
(* InsightReasoner (reasoning/insight_reasoner.py) the handlers call.      *)
(*                                                                         *)
(* Text is modelled as a sequence of character codes, so that sorting,     *)
(* parsing and concatenation behave as they do on Python strings.  SHA-256 *)
(* is modelled as an injective function: a digest is represented by the    *)
(* text (or the file content) it was computed from.                        *)
(***************************************************************************)
EXTENDS Integers, Sequences, FiniteSets, TLC

VARIABLES
    schemas,                  \* MemoryStore._schemas: (dataset_id, version) -> StoredSchema
    analyses,                 \* MemoryStore._analyses: (dataset_id, version) -> StoredAnalysis
    insights_by_dataset,      \* MemoryStore._insights_by_dataset: dataset_id -> list of StoredInsight
    insight_semantic_index,   \* MemoryStore._insight_semantic_index: (dataset_id, semantic_hash) -> insight_id
    query_cache,              \* MemoryStore._query_cache: (dataset_id, query_hash) -> QueryCacheEntry
    persist_path,             \* MemoryStore.persist_path: TRUE when a snapshot path is configured
    disk,                     \* the file at persist_path: NoFile, or the payload of the last _save
    last,                     \* the last request served sequentially: its input, response and calls
    analyzed_ok,              \* history: the (dataset_id, version) pairs of completed analyze requests
    pc,                       \* per worker thread: the position inside the handler it runs
    loc,                      \* per worker thread: the handler's local variables
    tmp                       \* the file at persist_path + ".tmp" that _save writes first

vars == <<schemas, analyses, insights_by_dataset, insight_semantic_index,
          query_cache, persist_path, disk, last, analyzed_ok, pc, loc, tmp>>

(***************************************************************************)
(* Bounds of the model.                                                    *)
(***************************************************************************)
MaxFingerprints == 2
MaxLedgerVersions == 11
MaxBatch == 2
MaxTime == 1
MaxStoreOps == 4
MaxRecords == 4
MaxConcRecords == 3
MaxSnapRecords == 2
MaxCrashRecords == 3
MaxReadRecords == 3

\* Python's None where a record is expected, where a version string is expected
\* (like "", it is falsy), and a path that names no file
NoRecord == [absent |-> TRUE]
NoVersion == <<>>
NoFile == [exists |-> FALSE]
File(content) == [exists |-> TRUE, content |-> content]

(***************************************************************************)
(* Text helpers (Python str semantics on sequences of character codes).    *)
(***************************************************************************)
Whitespace == {9, 10, 11, 12, 13, 32}

Bar == <<124>>                       \* "|"
LetterV == <<118>>                   \* "v"

RECURSIVE DecStr(_)
\* str(n) for n >= 0, as used by the f-string f"v{mx + 1}"
DecStr(n) ==
    IF n < 10 THEN <<48 + n>> ELSE DecStr(n \div 10) \o <<48 + (n % 10)>>

RECURSIVE DecVal(_)
\* int(s) for a string of decimal digits
DecVal(s) ==
    IF s = <<>> THEN 0
    ELSE 10 * DecVal(SubSeq(s, 1, Len(s) - 1)) + (s[Len(s)] - 48)

Lower(s) == [i \in 1..Len(s) |-> IF s[i] \in 65..90 THEN s[i] + 32 ELSE s[i]]

RECURSIVE LStrip(_)
LStrip(s) == IF s # <<>> /\ s[1] \in Whitespace THEN LStrip(Tail(s)) ELSE s

RECURSIVE RStrip(_)
RStrip(s) ==
    IF s # <<>> /\ s[Len(s)] \in Whitespace THEN RStrip(SubSeq(s, 1, Len(s) - 1)) ELSE s

Strip(s) == RStrip(LStrip(s))

RECURSIVE SortedList(_)
\* list.sort() of a list of distinct strings, given as the set of its elements
SortedList(S) ==
    LET \* Python's str.__lt__: code point by code point, a proper prefix is smaller
        LexLess(a, b) ==
            \E i \in 1..(Len(a) + 1) :
                /\ \A j \in 1..(i - 1) : j <= Len(b) /\ a[j] = b[j]
                /\ \/ i = Len(a) + 1 /\ Len(b) >= i
                   \/ i <= Len(a) /\ i <= Len(b) /\ a[i] < b[i]
    IN
    IF S = {} THEN <<>>
    ELSE LET m == CHOOSE x \in S : \A y \in S : x = y \/ LexLess(x, y)
         IN  <<m>> \o SortedList(S \ {m})

Range(s) == {s[i] : i \in 1..Len(s)}

(***************************************************************************)
(* Python dict as a finite map.                                            *)
(***************************************************************************)
EmptyMap == [k \in {} |-> NoRecord]
MapGet(m, k) == IF k \in DOMAIN m THEN m[k] ELSE NoRecord
MapPut(m, k, v) == [x \in (DOMAIN m) \cup {k} |-> IF x = k THEN v ELSE m[x]]

RECURSIVE SetToSeq(_)
\* the elements of a finite set in the iteration order of the dict that holds them
SetToSeq(S) ==
    IF S = {} THEN <<>>
    ELSE LET x == CHOOSE y \in S : TRUE IN <<x>> \o SetToSeq(S \ {x})

(***************************************************************************)
(* api/app.py: version ledger helpers.                                     *)
(***************************************************************************)
VTag(n) == LetterV \o DecStr(n)

parse_vnum(v) ==
    LET IsDigit(s) ==
            LET DigitCodes == 48..57
            IN
            s # <<>> /\ \A i \in 1..Len(s) : s[i] \in DigitCodes
    IN
    IF v = <<>> THEN 0
    ELSE LET w == Lower(Strip(v))
         IN  IF w # <<>> /\ w[1] = LetterV[1] /\ IsDigit(Tail(w))
             THEN DecVal(Tail(w))
             ELSE 0

SeqMax(s) ==
    IF s = <<>> THEN 0
    ELSE CHOOSE x \in Range(s) : \A y \in Range(s) : y <= x

\* a slip: the tag is numbered by the largest suffix itself
next_version_off_by_one(existing_versions) ==
    IF existing_versions = <<>> THEN VTag(1)
    ELSE VTag(SeqMax([i \in 1..Len(existing_versions) |->
                         parse_vnum(existing_versions[i])]))

next_version(existing_versions) ==
    IF existing_versions = <<>> THEN VTag(1)
    ELSE LET mx == SeqMax([i \in 1..Len(existing_versions) |->
                              parse_vnum(existing_versions[i])])
         IN  VTag(mx + 1)

\* a slip: the last tag in string order is taken
latest_version_lexicographic(existing_versions) ==
    IF existing_versions = <<>> THEN NoVersion
    ELSE LET srt == SortedList(Range(existing_versions))
         IN  srt[Len(srt)]

latest_version(existing_versions) ==
    IF existing_versions = <<>> THEN NoVersion
    ELSE LET nums == [i \in 1..Len(existing_versions) |->
                         parse_vnum(existing_versions[i])]
         IN  IF \E i \in 1..Len(nums) : nums[i] > 0
             THEN \* max(..., key=...) returns the first element with the largest key
                  LET i == CHOOSE k \in 1..Len(nums) :
                               /\ \A j \in 1..Len(nums) : nums[j] <= nums[k]
                               /\ \A j \in 1..(k - 1) : nums[j] < nums[k]
                  IN  existing_versions[i]
             ELSE LET srt == SortedList(Range(existing_versions))
                  IN  srt[Len(srt)]

(***************************************************************************)
(* memory/store.py: MemoryStore.  A store value S is the record of the     *)
(* object's fields together with the file at persist_path.                 *)
(***************************************************************************)
StoredSchema(dataset_id, version, file_hash, compressed_schema_json) ==
    [dataset_id |-> dataset_id, version |-> version, file_hash |-> file_hash,
     compressed_schema_json |-> compressed_schema_json]

StoredAnalysis(dataset_id, version, analysis_result, created_at) ==
    [dataset_id |-> dataset_id, version |-> version,
     analysis_result |-> analysis_result, created_at |-> created_at]

StoredInsight(insight_id, dataset_id, version, summary, confidence, semantic_hash) ==
    [insight_id |-> insight_id, dataset_id |-> dataset_id, version |-> version,
     summary |-> summary, confidence |-> confidence, semantic_hash |-> semantic_hash]

QueryCacheEntry(query_hash, dataset_id, response, created_at) ==
    [query_hash |-> query_hash, dataset_id |-> dataset_id, response |-> response,
     created_at |-> created_at]

\* hashlib.sha256(text.encode("utf-8")).hexdigest(), injective
stable_hash(text) == text

\* _save: the payload is written to a temporary file which then replaces the snapshot
store_save(S) ==
    LET MapValues(m) == LET ks == SetToSeq(DOMAIN m) IN [i \in 1..Len(ks) |-> m[ks[i]]]
        \* _flatten_insights: the lists of the datasets, one after the other
        flatten_insights ==
            LET ds == SetToSeq(DOMAIN S.insights_by_dataset)
                F[i \in 0..Len(ds)] ==
                    IF i = 0 THEN <<>> ELSE F[i - 1] \o S.insights_by_dataset[ds[i]]
            IN  F[Len(ds)]
    IN
    [S EXCEPT !.disk = [schemas     |-> MapValues(S.schemas),
                        analyses    |-> MapValues(S.analyses),
                        insights    |-> flatten_insights,
                        query_cache |-> MapValues(S.query_cache)]]

persist_if_enabled(S) == IF S.persist_path THEN store_save(S) ELSE S

\* What a file can hold besides the payload of a _save: nothing but whitespace, text
\* that is not JSON, and JSON whose top level is not an object.  A JSON object is
\* modelled by the function from its keys to its values.
Blank == [kind |-> "blank"]
Garbage == [kind |-> "text"]

PayloadKeys == {"schemas", "analyses", "insights", "query_cache"}

\* the keyword arguments each dataclass constructor takes
FieldsOf(key) ==
    CASE key = "schemas" -> {"dataset_id", "version", "file_hash", "compressed_schema_json"}
      [] key = "analyses" -> {"dataset_id", "version", "analysis_result", "created_at"}
      [] key = "insights" -> {"insight_id", "dataset_id", "version", "summary",
                              "confidence", "semantic_hash"}
      [] key = "query_cache" -> {"query_hash", "dataset_id", "response", "created_at"}

\* payload.get(key, [])
PayloadGet(payload, key) == IF key \in DOMAIN payload THEN payload[key] ELSE <<>>

\* json.loads(raw) if raw.strip() else {}
parse_snapshot(file) == IF file = Blank THEN EmptyMap ELSE file

\* _load raises: json.loads on text that is not JSON (JSONDecodeError), payload.get on
\* a value that is not an object (AttributeError), a dataclass constructor called with
\* missing or unknown keywords (TypeError)
LoadRaises(file) ==
    IF "kind" \in DOMAIN file
    THEN file.kind \in {"text", "array"}
    ELSE \E key \in PayloadKeys \cap DOMAIN file :
             \E i \in 1..Len(file[key]) : DOMAIN file[key][i] # FieldsOf(key)

Raised == [raised |-> TRUE]

\* a slip: the maps are not cleared before the arrays are read into them
store_load_merge(S) ==
    IF LoadRaises(S.disk) THEN Raised ELSE
    LET payload == parse_snapshot(S.disk)
        p == [key \in PayloadKeys |-> PayloadGet(payload, key)]
        Sch[i \in 0..Len(p.schemas)] ==
            IF i = 0 THEN S.schemas
            ELSE LET x == p.schemas[i]
                 IN  MapPut(Sch[i - 1], <<x.dataset_id, x.version>>, x)
        Ana[i \in 0..Len(p.analyses)] ==
            IF i = 0 THEN S.analyses
            ELSE LET a == p.analyses[i]
                 IN  MapPut(Ana[i - 1], <<a.dataset_id, a.version>>, a)
        Ins[i \in 0..Len(p.insights)] ==
            IF i = 0 THEN S.insights_by_dataset
            ELSE LET x == p.insights[i]
                     old == IF x.dataset_id \in DOMAIN Ins[i - 1]
                            THEN Ins[i - 1][x.dataset_id] ELSE <<>>
                 IN  MapPut(Ins[i - 1], x.dataset_id, Append(old, x))
        Idx[i \in 0..Len(p.insights)] ==
            IF i = 0 THEN S.insight_semantic_index
            ELSE LET x == p.insights[i]
                 IN  MapPut(Idx[i - 1], <<x.dataset_id, x.semantic_hash>>, x.insight_id)
        Qc[i \in 0..Len(p.query_cache)] ==
            IF i = 0 THEN S.query_cache
            ELSE LET q == p.query_cache[i]
                 IN  MapPut(Qc[i - 1], <<q.dataset_id, q.query_hash>>, q)
    IN  [S EXCEPT !.schemas = Sch[Len(p.schemas)],
                  !.analyses = Ana[Len(p.analyses)],
                  !.insights_by_dataset = Ins[Len(p.insights)],
                  !.insight_semantic_index = Idx[Len(p.insights)],
                  !.query_cache = Qc[Len(p.query_cache)]]

\* _load: the in-memory maps are cleared and rebuilt from the four arrays
store_load(S) ==
    IF LoadRaises(S.disk) THEN Raised ELSE
    LET payload == parse_snapshot(S.disk)
        p == [key \in PayloadKeys |-> PayloadGet(payload, key)]
        Sch[i \in 0..Len(p.schemas)] ==
            IF i = 0 THEN EmptyMap
            ELSE LET s == p.schemas[i]
                 IN  MapPut(Sch[i - 1], <<s.dataset_id, s.version>>, s)
        Ana[i \in 0..Len(p.analyses)] ==
            IF i = 0 THEN EmptyMap
            ELSE LET a == p.analyses[i]
                 IN  MapPut(Ana[i - 1], <<a.dataset_id, a.version>>, a)
        Ins[i \in 0..Len(p.insights)] ==
            IF i = 0 THEN EmptyMap
            ELSE LET x == p.insights[i]
                     old == IF x.dataset_id \in DOMAIN Ins[i - 1]
                            THEN Ins[i - 1][x.dataset_id] ELSE <<>>
                 IN  MapPut(Ins[i - 1], x.dataset_id, Append(old, x))
        Idx[i \in 0..Len(p.insights)] ==
            IF i = 0 THEN EmptyMap
            ELSE LET x == p.insights[i]
                 IN  MapPut(Idx[i - 1], <<x.dataset_id, x.semantic_hash>>, x.insight_id)
        Qc[i \in 0..Len(p.query_cache)] ==
            IF i = 0 THEN EmptyMap
            ELSE LET q == p.query_cache[i]
                 IN  MapPut(Qc[i - 1], <<q.dataset_id, q.query_hash>>, q)
    IN  [S EXCEPT !.schemas = Sch[Len(p.schemas)],
                  !.analyses = Ana[Len(p.analyses)],
                  !.insights_by_dataset = Ins[Len(p.insights)],
                  !.insight_semantic_index = Idx[Len(p.insights)],
                  !.query_cache = Qc[Len(p.query_cache)]]

\* MemoryStore(persist_path): empty maps, then _load when the snapshot file exists
NewStore(path, file) ==
    LET E == [schemas |-> EmptyMap, analyses |-> EmptyMap,
              insights_by_dataset |-> EmptyMap, insight_semantic_index |-> EmptyMap,
              query_cache |-> EmptyMap, persist_path |-> path, disk |-> file]
    IN  IF path /\ file # NoFile THEN store_load(E) ELSE E

save_schema(S, schema) ==
    persist_if_enabled(
        [S EXCEPT !.schemas = MapPut(S.schemas, <<schema.dataset_id, schema.version>>, schema)])

get_schema(S, dataset_id, version) == MapGet(S.schemas, <<dataset_id, version>>)

list_versions(S, dataset_id) ==
    SortedList({k[2] : k \in {x \in DOMAIN S.schemas : x[1] = dataset_id}})

\* a slip: the record is put in the map and the snapshot is not written
save_analysis_nopersist(S, analysis) ==
    [S EXCEPT !.analyses =
        MapPut(S.analyses, <<analysis.dataset_id, analysis.version>>, analysis)]

save_analysis(S, analysis) ==
    persist_if_enabled(
        [S EXCEPT !.analyses =
            MapPut(S.analyses, <<analysis.dataset_id, analysis.version>>, analysis)])

get_analysis(S, dataset_id, version) == MapGet(S.analyses, <<dataset_id, version>>)

has_analysis(S, dataset_id, version) == <<dataset_id, version>> \in DOMAIN S.analyses

insight_exists(S, semantic_hash, dataset_id) ==
    <<dataset_id, semantic_hash>> \in DOMAIN S.insight_semantic_index

list_insights(S, dataset_id) ==
    IF dataset_id \in DOMAIN S.insights_by_dataset
    THEN S.insights_by_dataset[dataset_id] ELSE <<>>

\* a slip: the membership test of the semantic index is left out
save_insight_overwrite(S, insight) ==
    LET key == <<insight.dataset_id, insight.semantic_hash>>
    IN  persist_if_enabled(
            [S EXCEPT !.insight_semantic_index = MapPut(@, key, insight.insight_id),
                      !.insights_by_dataset =
                          MapPut(@, insight.dataset_id,
                                 Append(list_insights(S, insight.dataset_id), insight))])

\* a slip: the record is appended but the index is not written
save_insight_unindexed(S, insight) ==
    LET key == <<insight.dataset_id, insight.semantic_hash>>
    IN  IF key \in DOMAIN S.insight_semantic_index
        THEN S
        ELSE persist_if_enabled(
                 [S EXCEPT !.insights_by_dataset =
                               MapPut(@, insight.dataset_id,
                                      Append(list_insights(S, insight.dataset_id), insight))])

save_insight(S, insight) ==
    LET key == <<insight.dataset_id, insight.semantic_hash>>
    IN  IF key \in DOMAIN S.insight_semantic_index
        THEN S
        ELSE persist_if_enabled(
                 [S EXCEPT !.insight_semantic_index = MapPut(@, key, insight.insight_id),
                           !.insights_by_dataset =
                               MapPut(@, insight.dataset_id,
                                      Append(list_insights(S, insight.dataset_id), insight))])

\* a slip: the key is built in the order of the parameters
get_cached_query_swapped(S, query_hash, dataset_id) ==
    MapGet(S.query_cache, <<query_hash, dataset_id>>)

get_cached_query(S, query_hash, dataset_id) ==
    MapGet(S.query_cache, <<dataset_id, query_hash>>)

save_cached_query(S, query_hash, dataset_id, response, now) ==
    persist_if_enabled(
        [S EXCEPT !.query_cache =
            MapPut(@, <<dataset_id, query_hash>>,
                   QueryCacheEntry(query_hash, dataset_id, response, now))])

(***************************************************************************)
(* reasoning/insight_reasoner.py: the part of InsightReasoner the router   *)
(* calls.  The oracle (llm.complete) either raises OllamaClientError,      *)
(* modelled as the reply Fail, or returns a text; a synthesis reply is     *)
(* modelled by the list of candidate objects parsed from it, a query reply *)
(* by its answer text.  OllamaLLMClient.embed returns None.                *)
(***************************************************************************)
Fail == [ok |-> FALSE]
Insights(candidates) == [ok |-> TRUE, insights |-> candidates]

max_new_insights == 8

RECURSIVE CollapseWs(_)
\* re.sub(r"\s+", " ", text)
CollapseWs(s) ==
    IF s = <<>> THEN <<>>
    ELSE IF s[1] \in Whitespace
         THEN LET rest == LStrip(s) IN <<32>> \o CollapseWs(rest)
         ELSE <<s[1]>> \o CollapseWs(Tail(s))

\* re.sub(r"[^\w\s\-]", "", text)
DropPunct(s) ==
    LET WordCodes == (48..57) \cup (65..90) \cup (97..122) \cup {95}
    IN
    SelectSeq(s, LAMBDA c : c \in WordCodes \cup Whitespace \cup {45})

normalize_text(text) == DropPunct(CollapseWs(Lower(Strip(text))))

semantic_hash(dedup_key) == normalize_text(dedup_key)

\* sha256(f"{dataset_id}|{version}|{semantic_hash}")[:16]
insight_id(dataset_id, version, sem_hash) ==
    dataset_id \o Bar \o version \o Bar \o sem_hash

Insight(iid, title, technical_summary, business_impact, confidence, sem_hash) ==
    [insight_id |-> iid, title |-> title, technical_summary |-> technical_summary,
     business_impact |-> business_impact, confidence |-> confidence,
     semantic_hash |-> sem_hash]

Take(s, n) == SubSeq(s, 1, IF Len(s) < n THEN Len(s) ELSE n)

\* synthesize_insights after the oracle replied with `candidates`: with no embeddings
\* (embed returns None) and no existing_insights_for_dedup, only the first pass
\* (semantic_hash collision within the batch) drops candidates
synthesize_insights(dataset_id, version, candidates) ==
    LET cs == Take(candidates, max_new_insights)
        Acc[i \in 0..Len(cs)] ==
            IF i = 0 THEN <<>>
            ELSE LET c == cs[i]
                     title == Strip(c.title)
                     dedup_key == IF Strip(c.dedup_key) # <<>> THEN Strip(c.dedup_key) ELSE title
                     sem_hash == semantic_hash(dedup_key)
                     candidate == Insight(insight_id(dataset_id, version, sem_hash), title,
                                          Strip(c.technical_summary), Strip(c.business_impact),
                                          c.confidence, sem_hash)
                 IN  IF \E k \in 1..Len(Acc[i - 1]) :
                            Acc[i - 1][k].semantic_hash = candidate.semantic_hash
                     THEN Acc[i - 1]
                     ELSE Append(Acc[i - 1], candidate)
    IN  Acc[Len(cs)]

insight_to_stored_insight_payload(insight, dataset_id, version) ==
    StoredInsight(insight.insight_id, dataset_id, version,
                  insight.title \o <<58, 32>> \o insight.technical_summary,
                  insight.confidence, insight.semantic_hash)

(***************************************************************************)
(* synthesize_insights in full: the reply of the oracle as JSON, and the   *)
(* three passes over the candidates.  A JSON value that need not be what   *)
(* the prompt asked for is tagged with its type; Insights(candidates) is   *)
(* the reply {"insights": [...]} whose items are objects with string       *)
(* fields and a numeric confidence.  The embedding service answers None, a *)
(* list of the wrong length, or one vector per text; a vector is a tuple   *)
(* of integers.                                                            *)
(***************************************************************************)
embedding_similarity_threshold_num == 88
embedding_similarity_threshold_den == 100
existing_cap == 50

JList(items) == [t |-> "list", items |-> items]

\* _parse_llm_json: empty text, text without a JSON object in it and JSON that is
\* not an object give {"insights": []}; a JSON object is returned as it is
parse_llm_json(reply) ==
    IF "text" \in DOMAIN reply THEN [insights |-> JList(<<>>)]
    ELSE IF "insights" \in DOMAIN reply THEN [insights |-> JList(reply.insights)]
    ELSE reply.object

\* the fields of a candidate as the loop reads them, lines 383-387; c.get raises
\* AttributeError when c is not an object
CandidateRaises(c) ==
    LET \* float(x) raises ValueError for text that is not a number, TypeError for None
        FloatRaises(v) == v.t # "num"
    IN
    IF "t" \in DOMAIN c
    THEN c.t # "obj" \/ ("confidence" \in DOMAIN c.fields /\ FloatRaises(c.fields.confidence))
    ELSE FALSE

CandidateFields(c) ==
    LET \* str(x) of a JSON scalar
        py_str(v) ==
            CASE v.t = "str" -> v.s
              [] v.t = "num" -> DecStr(v.n)
              [] v.t = "null" -> <<78, 111, 110, 101>>
        clamp01(x) == IF x < 0 THEN 0 ELSE IF x > 1 THEN 1 ELSE x
    IN
    IF "t" \in DOMAIN c
    THEN LET f == c.fields
             title == IF "title" \in DOMAIN f THEN Strip(py_str(f.title)) ELSE <<>>
             key == IF "dedup_key" \in DOMAIN f THEN Strip(py_str(f.dedup_key)) ELSE title
         IN  [title |-> title,
              technical_summary |-> IF "technical_summary" \in DOMAIN f
                                    THEN Strip(py_str(f.technical_summary)) ELSE <<>>,
              business_impact |-> IF "business_impact" \in DOMAIN f
                                  THEN Strip(py_str(f.business_impact)) ELSE <<>>,
              confidence |-> IF "confidence" \in DOMAIN f THEN clamp01(f.confidence.n) ELSE 0,
              dedup_key |-> IF key # <<>> THEN key ELSE title]
    ELSE LET title == Strip(c.title)
         IN  [title |-> title,
              technical_summary |-> Strip(c.technical_summary),
              business_impact |-> Strip(c.business_impact),
              confidence |-> clamp01(c.confidence),
              dedup_key |-> IF Strip(c.dedup_key) # <<>> THEN Strip(c.dedup_key) ELSE title]

Dot(a, b) ==
    LET F[i \in 0..Len(a)] == IF i = 0 THEN 0 ELSE F[i - 1] + a[i] * b[i]
    IN  F[Len(a)]

\* _cosine_similarity(a, b) >= threshold, in exact arithmetic: the similarity is 0.0
\* for empty vectors, vectors of different lengths and a zero denominator
SimilarityMeets(a, b) ==
    /\ a # <<>> /\ b # <<>> /\ Len(a) = Len(b)
    /\ Dot(a, a) * Dot(b, b) > 0
    /\ Dot(a, b) > 0
    /\ embedding_similarity_threshold_den * embedding_similarity_threshold_den
           * Dot(a, b) * Dot(a, b)
         >= embedding_similarity_threshold_num * embedding_similarity_threshold_num
              * Dot(a, a) * Dot(b, b)

\* _embedding_dedup: best_sim starts at -1.0 and is the largest similarity
embedding_dedup(embed, candidate, existing_pairs) ==
    LET \* llm.embed(texts): the candidate's text first, then the existing summaries
        emb ==
            IF ~embed.available THEN <<>>
            ELSE IF embed.short THEN <<embed.of_candidate>>
            ELSE <<embed.of_candidate>> \o [i \in 1..Len(existing_pairs) |->
                                              embed.of_summary[existing_pairs[i]]]
    IN  /\ emb # <<>>
        /\ Len(emb) = 1 + Len(existing_pairs)
        /\ \E i \in 2..Len(emb) : SimilarityMeets(emb[1], emb[i])

\* a slip: the first pass never finds a collision
batch_collision_never(insights, sem_hash) == FALSE

\* line 402: any(x.semantic_hash == candidate.semantic_hash for x in insights)
batch_collision(insights, sem_hash) ==
    \E k \in 1..Len(insights) : insights[k].semantic_hash = sem_hash

SynthOutcome(raised, insights, calls, fates) ==
    [raised |-> raised, insights |-> insights, calls |-> calls, fates |-> fates]

\* synthesize_insights, lines 357-418.  calls lists the external calls in order, each
\* with the index of the candidate it was made for (0 for the synthesis call);
\* fates tells, per candidate, which pass dropped it or that it was accepted
synthesize_cascade(dataset_id, version, inp) ==
    IF inp.reply = Fail
    THEN SynthOutcome("OllamaClientError", <<>>, <<[call |-> "complete", cand |-> 0]>>, <<>>)
    ELSE
    LET parsed == parse_llm_json(inp.reply)
        candidates == IF "insights" \in DOMAIN parsed THEN parsed.insights ELSE JList(<<>>)
        first == <<[call |-> "complete", cand |-> 0]>>
    IN
    IF candidates.t \notin {"list", "str"}
    THEN SynthOutcome("TypeError", <<>>, first, <<>>)
    ELSE IF candidates.t = "str"
    THEN SynthOutcome(IF candidates.s = <<>> THEN "none" ELSE "AttributeError",
                      <<>>, first, <<>>)
    ELSE
    LET cs == Take(candidates.items, max_new_insights)
        existing_pairs == Take(inp.existing_insight_summaries, existing_cap)
        Acc[i \in 0..Len(cs)] ==
            IF i = 0 THEN SynthOutcome("none", <<>>, first, <<>>)
            ELSE
            LET acc == Acc[i - 1] IN
            IF acc.raised # "none" THEN acc
            ELSE IF CandidateRaises(cs[i])
            THEN [acc EXCEPT !.raised = IF cs[i].t # "obj" THEN "AttributeError"
                                        ELSE "ValueError",
                             !.insights = <<>>]
            ELSE
            LET c == CandidateFields(cs[i])
                sem_hash == semantic_hash(c.dedup_key)
                candidate == Insight(insight_id(dataset_id, version, sem_hash), c.title,
                                     c.technical_summary, c.business_impact,
                                     c.confidence, sem_hash)
                embed_call == <<[call |-> "embed", cand |-> i]>>
                judge_call == <<[call |-> "judge", cand |-> i]>>
            IN
            IF batch_collision(acc.insights, sem_hash)
            THEN [acc EXCEPT !.fates = Append(@, "tier1")]
            ELSE IF embedding_dedup(inp.embed, candidate, existing_pairs)
            THEN [acc EXCEPT !.fates = Append(@, "tier2"), !.calls = @ \o embed_call]
            ELSE IF inp.existing_insights_for_dedup # <<>>
            THEN IF inp.verdict
                 THEN [acc EXCEPT !.fates = Append(@, "tier3"),
                                  !.calls = @ \o embed_call \o judge_call]
                 ELSE [acc EXCEPT !.fates = Append(@, "accepted"),
                                  !.calls = @ \o embed_call \o judge_call,
                                  !.insights = Append(@, candidate)]
            ELSE [acc EXCEPT !.fates = Append(@, "accepted"),
                             !.calls = @ \o embed_call,
                             !.insights = Append(@, candidate)]
    IN  Acc[Len(cs)]

(***************************************************************************)
(* api/app.py: the request handlers.  Each handler is a function of the    *)
(* store and of the request's inputs (the request body, what the file      *)
(* system and the oracle answer, the clock) and yields the store after the *)
(* request, the response and the calls made.                               *)
(***************************************************************************)
Supported(filename) == filename = "a.csv"

\* a slip: only the last listed version is compared with the fingerprint
find_version_last_only(S, dataset_id, file_hash) ==
    LET vs == list_versions(S, dataset_id)
    IN  IF vs # <<>> /\ get_schema(S, dataset_id, vs[Len(vs)]).file_hash = file_hash
        THEN vs[Len(vs)]
        ELSE NoVersion

find_version_by_hash(S, dataset_id, file_hash) ==
    LET vs == list_versions(S, dataset_id)
        hits == {i \in 1..Len(vs) :
                    LET s == get_schema(S, dataset_id, vs[i])
                    IN  s # NoRecord /\ s.file_hash = file_hash}
    IN  IF hits = {} THEN NoVersion
        ELSE vs[CHOOSE i \in hits : \A j \in hits : i <= j]

\* DatasetSchema.to_compressed_json() of extract_schema(file_path, dataset_id, version)
extract_schema(filename, file, dataset_id, version, now) ==
    [dataset_id |-> dataset_id, version |-> version, file_path |-> filename,
     file_hash |-> file.content, created_at |-> now, columns |-> file.content]

Reply(S, status, body, version, calls) ==
    [S |-> S, resp |-> [status |-> status, body |-> body], version |-> version,
     calls |-> calls]

ingest(S, dataset_id, filename, file, now) ==
    IF file = NoFile THEN Reply(S, 404, NoRecord, NoVersion, <<>>)
    ELSE
    LET file_hash == file.content
        existing_v == find_version_by_hash(S, dataset_id, file_hash)
    IN  IF existing_v # NoVersion
        THEN Reply(S, 200, [dataset_id |-> dataset_id, version |-> existing_v,
                            file_hash |-> file_hash, cached |-> TRUE], existing_v, <<>>)
        ELSE
        LET version == next_version(list_versions(S, dataset_id))
        IN  IF ~Supported(filename) THEN Reply(S, 500, NoRecord, version, <<"extract_schema">>)
            ELSE
            LET ds_schema == extract_schema(filename, file, dataset_id, version, now)
                S1 == save_schema(S, StoredSchema(dataset_id, version,
                                                  ds_schema.file_hash, ds_schema))
            IN  Reply(S1, 200, [dataset_id |-> dataset_id, version |-> version,
                                file_hash |-> ds_schema.file_hash, cached |-> FALSE],
                      version, <<"extract_schema", "save_schema">>)

resolve_version(S, dataset_id, req_version) ==
    IF req_version # NoVersion THEN req_version
    ELSE latest_version(list_versions(S, dataset_id))

\* the for loop over new_insights: save_insight, insights_created += 1
save_all(S, new_insights, dataset_id, version) ==
    LET F[i \in 0..Len(new_insights)] ==
            IF i = 0 THEN S
            ELSE save_insight(F[i - 1],
                     insight_to_stored_insight_payload(new_insights[i], dataset_id, version))
    IN  F[Len(new_insights)]

insights_created_count(S, new_insights) == Len(new_insights)

\* a slip: an oracle failure is swallowed and answered as an empty synthesis
analyze_insights_swallow(S1, dataset_id, version, analysis_cached, c1, reply) ==
    LET existing_for_version ==
            SelectSeq(list_insights(S1, dataset_id), LAMBDA i : i.version = version)
        insights_cached == Len(existing_for_version) > 0
        new_insights == IF reply = Fail THEN <<>>
                        ELSE synthesize_insights(dataset_id, version, reply.insights)
    IN  Reply(IF insights_cached THEN S1
              ELSE save_all(S1, new_insights, dataset_id, version),
              200,
              [dataset_id |-> dataset_id, version |-> version, schema_cached |-> TRUE,
               analysis_cached |-> analysis_cached, insights_cached |-> insights_cached,
               insights_created |-> IF insights_cached THEN 0 ELSE Len(new_insights)],
              version,
              IF insights_cached THEN c1
              ELSE c1 \o <<"llm.complete">>
                      \o [i \in 1..Len(new_insights) |-> "save_insight"])

\* analyze, lines 238-273: the version-scoped insights of an analysed version
analyze_insights(S1, dataset_id, version, analysis_cached, c1, reply) ==
    LET existing == list_insights(S1, dataset_id)
        existing_for_version == SelectSeq(existing, LAMBDA i : i.version = version)
        insights_cached == Len(existing_for_version) > 0
        body(created) ==
            [dataset_id |-> dataset_id, version |-> version, schema_cached |-> TRUE,
             analysis_cached |-> analysis_cached, insights_cached |-> insights_cached,
             insights_created |-> created]
    IN
    IF insights_cached THEN Reply(S1, 200, body(0), version, c1)
    ELSE IF reply = Fail
    THEN Reply(S1, 502, NoRecord, version, c1 \o <<"llm.complete">>)
    ELSE
    LET new_insights == synthesize_insights(dataset_id, version, reply.insights)
        S2 == save_all(S1, new_insights, dataset_id, version)
    IN  Reply(S2, 200, body(insights_created_count(S1, new_insights)), version,
              c1 \o <<"llm.complete">> \o [i \in 1..Len(new_insights) |-> "save_insight"])

\* a slip: the schema of the resolved version is not looked up
analyze_any_version(S, dataset_id, req_version, file, reply, now) ==
    LET version == resolve_version(S, dataset_id, req_version)
    IN
    IF version = NoVersion THEN Reply(S, 404, NoRecord, NoVersion, <<>>)
    ELSE
    LET analysis_cached == has_analysis(S, dataset_id, version)
    IN
    IF ~analysis_cached /\ file = NoFile THEN Reply(S, 404, NoRecord, NoVersion, <<>>)
    ELSE
    LET result == [dataset_id |-> dataset_id, version |-> version,
                   created_at |-> now, signals |-> file.content]
        S1 == IF analysis_cached THEN S
              ELSE save_analysis(S, StoredAnalysis(dataset_id, version, result, now))
        c1 == IF analysis_cached THEN <<>> ELSE <<"analyze_file", "save_analysis">>
    IN  analyze_insights(S1, dataset_id, version, analysis_cached, c1, reply)

\* analyze, lines 203-236: version resolution, schema lookup, memory-first analysis
analyze(S, dataset_id, req_version, file, reply, now) ==
    LET version == resolve_version(S, dataset_id, req_version)
    IN
    IF version = NoVersion THEN Reply(S, 404, NoRecord, NoVersion, <<>>)
    ELSE
    LET stored_schema == get_schema(S, dataset_id, version)
    IN
    IF stored_schema = NoRecord THEN Reply(S, 404, NoRecord, NoVersion, <<>>)
    ELSE
    LET analysis_cached == has_analysis(S, dataset_id, version)
    IN
    IF ~analysis_cached /\ file = NoFile THEN Reply(S, 404, NoRecord, NoVersion, <<>>)
    ELSE
    LET result == [dataset_id |-> dataset_id, version |-> version,
                   created_at |-> now, signals |-> file.content]
        S1 == IF analysis_cached THEN S
              ELSE save_analysis(S, StoredAnalysis(dataset_id, version, result, now))
        c1 == IF analysis_cached THEN <<>> ELSE <<"analyze_file", "save_analysis">>
    IN
    IF get_analysis(S1, dataset_id, version) = NoRecord
    THEN Reply(S1, 500, NoRecord, version, c1)
    ELSE analyze_insights(S1, dataset_id, version, analysis_cached, c1, reply)

query_text(dataset_id, version, question) ==
    dataset_id \o Bar \o version \o Bar \o question

query(S, dataset_id, req_version, question, reply, now) ==
    LET version == resolve_version(S, dataset_id, req_version)
    IN
    IF version = NoVersion THEN Reply(S, 404, NoRecord, NoVersion, <<>>)
    ELSE IF get_schema(S, dataset_id, version) = NoRecord THEN Reply(S, 404, NoRecord, NoVersion, <<>>)
    ELSE
    LET query_hash == stable_hash(query_text(dataset_id, version, question))
        cached == get_cached_query(S, query_hash, dataset_id)
        body(c, a) == [dataset_id |-> dataset_id, version |-> version,
                       query_hash |-> query_hash, cached |-> c, answer |-> a]
    IN
    IF cached # NoRecord THEN Reply(S, 200, body(TRUE, cached.response), version, <<>>)
    ELSE IF reply = Fail THEN Reply(S, 502, NoRecord, version, <<"llm.complete">>)
    ELSE Reply(save_cached_query(S, query_hash, dataset_id, reply.answer, now), 200,
               body(FALSE, reply.answer), version, <<"llm.complete", "save_cached_query">>)

compare(S, dataset_id, base_version, compare_version) ==
    LET base == get_schema(S, dataset_id, base_version)
        comp == get_schema(S, dataset_id, compare_version)
    IN  IF base = NoRecord \/ comp = NoRecord THEN Reply(S, 404, NoRecord, NoVersion, <<>>)
        ELSE Reply(S, 200, [dataset_id |-> dataset_id, base_version |-> base_version,
                            compare_version |-> compare_version], NoVersion, <<>>)

(***************************************************************************)
(* Inputs of the requests.                                                 *)
(***************************************************************************)
Datasets == {<<100, 49>>, <<100, 50>>}                \* "d1", "d2"
Fingerprints == 1..MaxFingerprints

Files == {NoFile} \cup {File(h) : h \in Fingerprints}
Times == 1..MaxTime
\* no version, the tags ingestion can assign and one more
ReqVersions == {NoVersion} \cup {VTag(n) : n \in 1..(MaxFingerprints + 1)}

Candidates ==
    LET DedupKeys == {<<97>>, <<65, 32>>, <<98>>}             \* "a", "A ", "b"
    IN
    {[title |-> <<116>>, technical_summary |-> <<115>>, business_impact |-> <<105>>,
      confidence |-> 1, dedup_key |-> k] : k \in DedupKeys}

SynthReplies ==
    LET Batches == UNION {[1..n -> Candidates] : n \in 0..MaxBatch}
    IN
    {Fail} \cup {Insights(b) : b \in Batches}

Questions == {<<113>>}                                \* "q"
QueryReplies ==
    LET Answer(text) == [ok |-> TRUE, answer |-> text]
    IN
    {Fail, Answer("yes"), Answer("no")}

Threads == {1, 2}
Idle == [op |-> "idle"]

(***************************************************************************)
(* The state machine.                                                      *)
(***************************************************************************)
Store ==
    [schemas |-> schemas, analyses |-> analyses,
     insights_by_dataset |-> insights_by_dataset,
     insight_semantic_index |-> insight_semantic_index,
     query_cache |-> query_cache, persist_path |-> persist_path, disk |-> disk]

SetStore(S) ==
    /\ schemas' = S.schemas
    /\ analyses' = S.analyses
    /\ insights_by_dataset' = S.insights_by_dataset
    /\ insight_semantic_index' = S.insight_semantic_index
    /\ query_cache' = S.query_cache
    /\ persist_path' = S.persist_path
    /\ disk' = S.disk

\* create_app: store = MemoryStore(persist_path=os.getenv("MEMORY_STORE_PATH")), no snapshot yet
Init ==
    /\ \E path \in BOOLEAN : 
          LET S == NewStore(path, NoFile)
          IN  /\ schemas = S.schemas
              /\ analyses = S.analyses
              /\ insights_by_dataset = S.insights_by_dataset
              /\ insight_semantic_index = S.insight_semantic_index
              /\ query_cache = S.query_cache
              /\ persist_path = S.persist_path
              /\ disk = S.disk
    /\ last = [op |-> "none", status |-> 200, version |-> NoVersion, cached |-> FALSE]
    /\ analyzed_ok = {}
    /\ pc = [t \in Threads |-> "idle"]
    /\ loc = [t \in Threads |-> Idle]
    /\ tmp = NoFile

\* the number of records the store holds
StoreSize(S) ==
    LET ds == SetToSeq(DOMAIN S.insights_by_dataset)
        N[i \in 0..Len(ds)] ==
            IF i = 0 THEN 0 ELSE N[i - 1] + Len(S.insights_by_dataset[ds[i]])
    IN  Cardinality(DOMAIN S.schemas) + Cardinality(DOMAIN S.analyses)
          + Cardinality(DOMAIN S.query_cache) + N[Len(ds)]

\* requests are served while the store holds fewer than MaxRecords records
Open == StoreSize(Store) < MaxRecords

Served(op, r) ==
    last' = [op |-> op, status |-> r.resp.status, version |-> r.version,
             cached |-> IF r.resp.status # 200 THEN FALSE
                        ELSE IF op = "ingest" \/ op = "query" THEN r.resp.body.cached
                        ELSE IF op = "analyze" THEN r.resp.body.insights_cached
                        ELSE FALSE]

AnalyzeRunsOf(replies) ==
    {[d |-> d, reply |-> reply, r |-> analyze(Store, d, v, file, reply, now)] :
        d \in Datasets, v \in ReqVersions, file \in Files, reply \in replies,
        now \in Times}

AnalyzeRuns == AnalyzeRunsOf(SynthReplies)

QueryRunsOf(replies) ==
    {[d |-> d, q |-> q, reply |-> reply, r |-> query(Store, d, v, q, reply, now)] :
        d \in Datasets, v \in ReqVersions, q \in Questions, reply \in replies,
        now \in Times}

QueryRuns == QueryRunsOf(QueryReplies)

Ingest ==
    LET Filenames == {"a.csv", "b.txt"}
        \* every request the router can be sent in the current state, with its outcome r
        IngestRuns ==
            {[d |-> d, file |-> file, r |-> ingest(Store, d, f, file, now)] :
                d \in Datasets, f \in Filenames, file \in Files, now \in Times}
    IN
    \E run \in IngestRuns :
        /\ SetStore(run.r.S)
        /\ Served("ingest", run.r)
        /\ UNCHANGED <<analyzed_ok, pc, loc, tmp>>

Analyze ==
    \E run \in AnalyzeRuns :
        /\ SetStore(run.r.S)
        /\ Served("analyze", run.r)
        /\ analyzed_ok' = IF run.r.resp.status = 200
                          THEN analyzed_ok \cup {<<run.d, run.r.version>>}
                          ELSE analyzed_ok
        /\ UNCHANGED <<pc, loc, tmp>>

Query ==
    \E run \in QueryRuns :
        /\ SetStore(run.r.S)
        /\ Served("query", run.r)
        /\ UNCHANGED <<analyzed_ok, pc, loc, tmp>>

Compare ==
    LET CompareRuns ==
            {[d |-> d, r |-> compare(Store, d, b, c)] :
                d \in Datasets, b \in ReqVersions \ {NoVersion}, c \in ReqVersions \ {NoVersion}}
    IN
    \E run \in CompareRuns :
        /\ SetStore(run.r.S)
        /\ Served("compare", run.r)
        /\ UNCHANGED <<analyzed_ok, pc, loc, tmp>>

\* the process is started again on the snapshot it wrote: MemoryStore.__init__ loads it
Restart ==
    /\ persist_path /\ disk # NoFile
    /\ SetStore(NewStore(persist_path, disk))
    /\ last' = [op |-> "restart", status |-> 200, version |-> NoVersion, cached |-> FALSE]
    /\ UNCHANGED <<analyzed_ok, pc, loc, tmp>>

Next == (Open /\ (Ingest \/ Analyze \/ Query \/ Compare)) \/ Restart

Spec == Init /\ [][Next]_vars

(***************************************************************************)
(* The version ledger alone: ingestion of up to MaxLedgerVersions contents *)
(* per dataset.  The contents of a dataset are numbered in the order of    *)
(* their first ingestion.                                                  *)
(***************************************************************************)
LedgerRuns ==
    {[d |-> d, file |-> file, r |-> ingest(Store, d, "a.csv", file, now)] :
        d \in Datasets,
        file \in {NoFile} \cup {File(h) : h \in 1..MaxLedgerVersions},
        now \in Times}

LedgerIngest ==
    \E run \in LedgerRuns :
        /\ run.file # NoFile =>
              run.file.content <= Len(list_versions(Store, run.d)) + 1
        /\ SetStore(run.r.S)
        /\ Served("ingest", run.r)
        /\ UNCHANGED <<analyzed_ok, pc, loc, tmp>>

NextLedger == LedgerIngest \/ Restart

SpecLedger == Init /\ [][NextLedger]_vars

(***************************************************************************)
(* The store alone: a caller of MemoryStore saves records of its own       *)
(* making, while the store holds fewer than MaxStoreOps records.           *)
(***************************************************************************)
StoreVersions == {VTag(1), VTag(2)}
StoreSchemas ==
    {StoredSchema(d, v, h, [columns |-> h]) :
        d \in Datasets, v \in StoreVersions, h \in Fingerprints}
StoreAnalyses ==
    {StoredAnalysis(d, v, [signals |-> n], now) :
        d \in Datasets, v \in StoreVersions, n \in Fingerprints, now \in Times}
\* records that share a semantic hash and differ in id, in text or in version
StoreInsights ==
    {StoredInsight(x[1], d, x[2], x[3], 1, h) :
        d \in Datasets, h \in {<<97>>, <<98>>},
        x \in {<<"i1", VTag(1), "s1">>, <<"i2", VTag(1), "s2">>, <<"i3", VTag(2), "s1">>}}

Called(op, version, present) ==
    last' = [op |-> op, status |-> 200, version |-> version, cached |-> present]

StoreOpen == StoreSize(Store) < MaxStoreOps

SaveSchemaOp ==
    \E schema \in StoreSchemas :
        /\ StoreOpen
        /\ SetStore(save_schema(Store, schema))
        /\ Called("save_schema", schema.version,
                  get_schema(Store, schema.dataset_id, schema.version) # NoRecord)
        /\ UNCHANGED <<analyzed_ok, pc, loc, tmp>>

SaveAnalysisOp ==
    \E analysis \in StoreAnalyses :
        /\ StoreOpen
        /\ SetStore(save_analysis(Store, analysis))
        /\ Called("save_analysis", analysis.version,
                  has_analysis(Store, analysis.dataset_id, analysis.version))
        /\ UNCHANGED <<analyzed_ok, pc, loc, tmp>>

SaveInsightOp ==
    \E insight \in StoreInsights :
        /\ StoreOpen
        /\ SetStore(save_insight(Store, insight))
        /\ Called("save_insight", insight.version,
                  insight_exists(Store, insight.semantic_hash, insight.dataset_id))
        /\ UNCHANGED <<analyzed_ok, pc, loc, tmp>>

SaveCachedQueryOp ==
    LET StoreResponses == {"yes", "no"}
    IN
    \E d \in Datasets, q \in Questions, response \in StoreResponses, now \in Times :
        /\ StoreOpen
        /\ SetStore(save_cached_query(Store, stable_hash(q), d, response, now))
        /\ Called("save_cached_query", NoVersion,
                  get_cached_query(Store, stable_hash(q), d) # NoRecord)
        /\ UNCHANGED <<analyzed_ok, pc, loc, tmp>>

NextStore ==
    SaveSchemaOp \/ SaveAnalysisOp \/ SaveInsightOp \/ SaveCachedQueryOp \/ Restart

SpecStore == Init /\ [][NextStore]_vars

(***************************************************************************)
(* Two requests at a time.  The handlers are plain `def` functions, which  *)
(* the server runs on worker threads; neither the router nor MemoryStore   *)
(* takes a lock, so a thread can be preempted between any two calls of the *)
(* store and, inside save_insight, between its statements.  pc[t] is the   *)
(* position of worker t in its handler and loc[t] holds the handler's      *)
(* local variables; conc records that the request overlapped a request of  *)
(* the other worker.                                                       *)
(***************************************************************************)

InFlight(t) == pc[t] \notin {"idle", "done"}

Respond(t, status, version, cached) ==
    /\ pc' = [pc EXCEPT ![t] = "done"]
    /\ loc' = [loc EXCEPT ![t].resp =
                  [status |-> status, version |-> version, cached |-> cached]]

Goto(t, label, frame) ==
    /\ pc' = [pc EXCEPT ![t] = label]
    /\ loc' = [loc EXCEPT ![t] = frame]

\* a worker picks up a request while the store holds fewer than MaxConcRecords records
ConcStart(t) ==
    LET Frame(op, d, file, conc) ==
            [op |-> op, d |-> d, file |-> file, conc |-> conc, version |-> NoVersion,
             todo |-> <<>>, hashes |-> {}, created |-> 0,
             resp |-> [status |-> 0, version |-> NoVersion, cached |-> FALSE]]
    IN
    /\ pc[t] = "idle"
    /\ StoreSize(Store) < MaxConcRecords
    /\ \E op \in {"ingest", "analyze"}, d \in Datasets, h \in Fingerprints :
          LET overlap == \E u \in Threads \ {t} : InFlight(u)
          IN  /\ pc' = [pc EXCEPT ![t] = IF op = "ingest" THEN "ingest_find"
                                         ELSE "analyze_begin"]
              /\ loc' = [u \in Threads |->
                            IF u = t THEN Frame(op, d, File(h), overlap)
                            ELSE IF InFlight(u) THEN [loc[u] EXCEPT !.conc = TRUE]
                            ELSE loc[u]]
    /\ UNCHANGED <<schemas, analyses, insights_by_dataset, insight_semantic_index,
                   query_cache, persist_path, disk, last, analyzed_ok, tmp>>

\* ingest: existing_v = _find_version_by_hash(store, dataset_id, file_hash)
IngestFind(t) ==
    /\ pc[t] = "ingest_find"
    /\ LET existing_v == find_version_by_hash(Store, loc[t].d, loc[t].file.content)
       IN  IF existing_v # NoVersion
           THEN Respond(t, 200, existing_v, TRUE)
           ELSE Goto(t, "ingest_next", loc[t])
    /\ UNCHANGED <<schemas, analyses, insights_by_dataset, insight_semantic_index,
                   query_cache, persist_path, disk, last, analyzed_ok, tmp>>

\* ingest: version = _next_version(store.list_versions(dataset_id)); extract_schema(...)
IngestNext(t) ==
    /\ pc[t] = "ingest_next"
    /\ Goto(t, "ingest_save",
            [loc[t] EXCEPT !.version = next_version(list_versions(Store, loc[t].d))])
    /\ UNCHANGED <<schemas, analyses, insights_by_dataset, insight_semantic_index,
                   query_cache, persist_path, disk, last, analyzed_ok, tmp>>

\* ingest: store.save_schema(StoredSchema(...)); return IngestResponse(cached=False)
IngestSave(t) ==
    /\ pc[t] = "ingest_save"
    /\ \E now \in Times :
          LET ds_schema == extract_schema("a.csv", loc[t].file, loc[t].d, loc[t].version, now)
          IN  SetStore(save_schema(Store, StoredSchema(loc[t].d, loc[t].version,
                                                       ds_schema.file_hash, ds_schema)))
    /\ Respond(t, 200, loc[t].version, FALSE)
    /\ UNCHANGED <<last, analyzed_ok, tmp>>

\* analyze, lines 205-244: up to the decision to call the oracle
AnalyzeBegin(t) ==
    /\ pc[t] = "analyze_begin"
    /\ \E now \in Times :
          LET d == loc[t].d
              version == resolve_version(Store, d, NoVersion)
              analysis_cached == has_analysis(Store, d, version)
              result == [dataset_id |-> d, version |-> version, created_at |-> now,
                         signals |-> loc[t].file.content]
              S1 == IF analysis_cached THEN Store
                    ELSE save_analysis(Store, StoredAnalysis(d, version, result, now))
              insights_cached ==
                  \E i \in 1..Len(list_insights(S1, d)) :
                      list_insights(S1, d)[i].version = version
          IN  IF version = NoVersion \/ get_schema(Store, d, version) = NoRecord
              THEN /\ Respond(t, 404, NoVersion, FALSE)
                   /\ SetStore(Store)
              ELSE /\ SetStore(S1)
                   /\ IF insights_cached
                      THEN Respond(t, 200, version, TRUE)
                      ELSE Goto(t, "analyze_llm", [loc[t] EXCEPT !.version = version])
    /\ UNCHANGED <<last, analyzed_ok, tmp>>

\* analyze, lines 246-261: reasoner.synthesize_insights(...) or HTTPException(502)
AnalyzeLlm(t) ==
    LET ConcReplies == {Fail} \cup {Insights(b) : b \in [1..1 -> Candidates]}
    IN
    /\ pc[t] = "analyze_llm"
    /\ \E reply \in ConcReplies :
          IF reply = Fail THEN Respond(t, 502, loc[t].version, FALSE)
          ELSE LET new_insights ==
                       synthesize_insights(loc[t].d, loc[t].version, reply.insights)
                   todo == [i \in 1..Len(new_insights) |->
                               insight_to_stored_insight_payload(
                                   new_insights[i], loc[t].d, loc[t].version)]
               IN  IF todo = <<>> THEN Respond(t, 200, loc[t].version, FALSE)
                   ELSE Goto(t, "save_check",
                             [loc[t] EXCEPT !.todo = todo,
                                            !.hashes = {todo[i].semantic_hash :
                                                           i \in 1..Len(todo)}])
    /\ UNCHANGED <<schemas, analyses, insights_by_dataset, insight_semantic_index,
                   query_cache, persist_path, disk, last, analyzed_ok, tmp>>

\* the loop goes on to the next insight, or the handler returns AnalyzeResponse
SavedOne(t) ==
    IF Tail(loc[t].todo) = <<>>
    THEN /\ pc' = [pc EXCEPT ![t] = "done"]
         /\ loc' = [loc EXCEPT ![t].todo = <<>>, ![t].created = @ + 1,
                               ![t].resp = [status |-> 200, version |-> loc[t].version,
                                            cached |-> FALSE]]
    ELSE Goto(t, "save_check", [loc[t] EXCEPT !.todo = Tail(@), !.created = @ + 1])

\* save_insight, lines 175-177: if key in self._insight_semantic_index: return
SaveCheck(t) ==
    /\ pc[t] = "save_check"
    /\ LET insight == Head(loc[t].todo)
       IN  IF insight_exists(Store, insight.semantic_hash, insight.dataset_id)
           THEN SavedOne(t)
           ELSE Goto(t, "save_index", loc[t])
    /\ UNCHANGED <<schemas, analyses, insights_by_dataset, insight_semantic_index,
                   query_cache, persist_path, disk, last, analyzed_ok, tmp>>

\* save_insight, line 179: self._insight_semantic_index[key] = insight.insight_id
SaveIndex(t) ==
    /\ pc[t] = "save_index"
    /\ LET insight == Head(loc[t].todo)
       IN  insight_semantic_index' =
               MapPut(insight_semantic_index,
                      <<insight.dataset_id, insight.semantic_hash>>, insight.insight_id)
    /\ Goto(t, "save_append", loc[t])
    /\ UNCHANGED <<schemas, analyses, insights_by_dataset, query_cache, persist_path,
                   disk, last, analyzed_ok, tmp>>

\* save_insight, lines 180-181: setdefault(dataset_id, []).append(insight); persist
SaveAppend(t) ==
    /\ pc[t] = "save_append"
    /\ LET insight == Head(loc[t].todo)
       IN  SetStore(persist_if_enabled(
               [Store EXCEPT !.insights_by_dataset =
                   MapPut(@, insight.dataset_id,
                          Append(list_insights(Store, insight.dataset_id), insight))]))
    /\ SavedOne(t)
    /\ UNCHANGED <<last, analyzed_ok, tmp>>

\* the response has been sent and the worker is free again
ConcReturn(t) ==
    /\ pc[t] = "done"
    /\ Goto(t, "idle", Idle)
    /\ UNCHANGED <<schemas, analyses, insights_by_dataset, insight_semantic_index,
                   query_cache, persist_path, disk, last, analyzed_ok, tmp>>

NextConc ==
    \E t \in Threads :
        \/ ConcStart(t)
        \/ IngestFind(t)
        \/ IngestNext(t)
        \/ IngestSave(t)
        \/ AnalyzeBegin(t)
        \/ AnalyzeLlm(t)
        \/ SaveCheck(t)
        \/ SaveIndex(t)
        \/ SaveAppend(t)
        \/ ConcReturn(t)

SpecConc == Init /\ [][NextConc]_vars

(***************************************************************************)
(* A mutating call of the store, statement by statement: the write to the  *)
(* in-memory maps, then _save: the payload is built by iterating the maps, *)
(* the temporary file is opened (which truncates it) and written, and the  *)
(* temporary file replaces the snapshot.  Every worker uses the same       *)
(* temporary path.  A worker runs one call at a time.                      *)
(***************************************************************************)
Mem(S) ==
    <<S.schemas, S.analyses, S.insights_by_dataset, S.insight_semantic_index,
      S.query_cache>>

\* the sizes of the four dicts _save iterates
Sizes(S) ==
    <<Cardinality(DOMAIN S.schemas), Cardinality(DOMAIN S.analyses),
      Cardinality(DOMAIN S.insights_by_dataset), Cardinality(DOMAIN S.query_cache)>>

\* the payload _save builds from the maps as they are
payload_of(S) == store_save(S).disk

DatasetOf(t) == IF t = 1 THEN <<100, 49>> ELSE <<100, 50>>

\* the call starts: the record is put in the maps and the iteration of _save begins
SnapCall(t, ds, bound) ==
    LET \* the method body up to _persist_if_enabled
        in_memory(S, call) ==
            LET M == [S EXCEPT !.persist_path = FALSE]
                R == CASE call.method = "save_schema" -> save_schema(M, call.arg)
                       [] call.method = "save_analysis" -> save_analysis(M, call.arg)
                       [] call.method = "save_insight" -> save_insight(M, call.arg)
            IN  [R EXCEPT !.persist_path = S.persist_path]
        \* the mutating calls of an ingest/analyze pipeline that works on the datasets ds
        SnapCalls ==
            {[method |-> "save_schema", arg |-> r] : r \in {x \in StoreSchemas : x.dataset_id \in ds}}
            \cup {[method |-> "save_analysis", arg |-> r] :
                      r \in {x \in StoreAnalyses : x.dataset_id \in ds}}
            \cup {[method |-> "save_insight", arg |-> r] :
                      r \in {x \in StoreInsights : x.dataset_id \in ds /\ x.insight_id = "i1"}}
        SnapFrame(call, before, seen) ==
            [op |-> call.method, before |-> before, seen |-> seen, payload |-> NoFile,
             moved |-> FALSE]
    IN
    /\ pc[t] = "idle"
    /\ persist_path
    /\ StoreSize(Store) < bound
    /\ \E call \in SnapCalls :
          LET S2 == in_memory(Store, call)
          IN  /\ ~(call.method = "save_insight"
                    /\ insight_exists(Store, call.arg.semantic_hash, call.arg.dataset_id))
              /\ SetStore(S2)
              /\ Goto(t, "snap_payload", SnapFrame(call, Mem(Store), Sizes(S2)))
    /\ UNCHANGED <<last, analyzed_ok, tmp>>

\* _save, lines 220-225: a dict that changed size while it was iterated raises
\* RuntimeError; one that changed before its iteration began is read as it is
SnapPayload(t) ==
    /\ pc[t] = "snap_payload"
    /\ \/ Goto(t, "snap_open", [loc[t] EXCEPT !.payload = payload_of(Store)])
       \/ /\ Sizes(Store) # loc[t].seen
          /\ Goto(t, "failed", loc[t])
    /\ UNCHANGED <<schemas, analyses, insights_by_dataset, insight_semantic_index,
                   query_cache, persist_path, disk, last, analyzed_ok, tmp>>

\* a slip: the text is written straight to the snapshot file
SnapWriteOpen_in_place(t) ==
    /\ pc[t] = "snap_open"
    /\ disk' \in {Blank, Garbage}
    /\ Goto(t, "snap_writing", [loc[t] EXCEPT !.moved = TRUE])
    /\ UNCHANGED <<schemas, analyses, insights_by_dataset, insight_semantic_index,
                   query_cache, persist_path, tmp, last, analyzed_ok>>

\* _save, line 229: write_text opens the temporary file, which empties it, and has
\* written none or a part of the text
SnapWriteOpen(t) ==
    /\ pc[t] = "snap_open"
    /\ tmp' \in {Blank, Garbage}
    /\ Goto(t, "snap_writing", [loc[t] EXCEPT !.moved = FALSE])
    /\ UNCHANGED <<schemas, analyses, insights_by_dataset, insight_semantic_index,
                   query_cache, persist_path, disk, last, analyzed_ok>>

\* _save, line 229: the rest of the text is written and the file is closed; the text
\* goes to the file that was opened, wherever a replace has moved it since
SnapWriteClose(t) ==
    /\ pc[t] = "snap_writing"
    /\ IF loc[t].moved
       THEN disk' = loc[t].payload /\ UNCHANGED tmp
       ELSE tmp' = loc[t].payload /\ UNCHANGED disk
    /\ Goto(t, "snap_replace", loc[t])
    /\ UNCHANGED <<schemas, analyses, insights_by_dataset, insight_semantic_index,
                   query_cache, persist_path, last, analyzed_ok>>

\* _save, line 230: tmp.replace(self.persist_path); FileNotFoundError when the
\* temporary file is no longer there
SnapReplace(t) ==
    /\ pc[t] = "snap_replace"
    /\ IF tmp = NoFile
       THEN /\ Goto(t, "failed", loc[t])
            /\ UNCHANGED <<disk, tmp>>
       ELSE /\ disk' = tmp
            /\ tmp' = NoFile
            /\ pc' = [pc EXCEPT ![t] = "idle"]
            /\ loc' = [u \in Threads |->
                          IF u = t THEN Idle
                          ELSE IF pc[u] = "snap_writing" THEN [loc[u] EXCEPT !.moved = TRUE]
                          ELSE loc[u]]
    /\ UNCHANGED <<schemas, analyses, insights_by_dataset, insight_semantic_index,
                   query_cache, persist_path, last, analyzed_ok>>

\* the request whose call raised is answered with an error and the worker is free
SnapReturn(t) ==
    /\ pc[t] = "failed"
    /\ Goto(t, "idle", Idle)
    /\ UNCHANGED <<schemas, analyses, insights_by_dataset, insight_semantic_index,
                   query_cache, persist_path, disk, last, analyzed_ok, tmp>>

\* two pipelines, each on a dataset of its own
NextSnap ==
    \E t \in Threads :
        \/ SnapCall(t, {DatasetOf(t)}, MaxSnapRecords)
        \/ SnapPayload(t)
        \/ SnapWriteOpen(t)
        \/ SnapWriteClose(t)
        \/ SnapReplace(t)
        \/ SnapReturn(t)

SpecSnap == Init /\ [][NextSnap]_vars

\* the process dies and is started again: the memory is gone, the files stay
Crash ==
    /\ persist_path
    /\ \E t \in Threads : pc[t] # "idle"
    /\ disk # NoFile => ~LoadRaises(disk)
    /\ SetStore(NewStore(persist_path, disk))
    /\ pc' = [t \in Threads |-> "idle"]
    /\ loc' = [t \in Threads |-> Idle]
    /\ last' = [op |-> "crash", status |-> 200, version |-> NoVersion, cached |-> FALSE]
    /\ UNCHANGED <<analyzed_ok, tmp>>

\* one worker, and a crash at any step of a call
NextCrash ==
    \/ SnapCall(1, Datasets, MaxCrashRecords)
    \/ SnapPayload(1)
    \/ SnapWriteOpen(1)
    \/ SnapWriteClose(1)
    \/ SnapReplace(1)
    \/ Crash

SpecCrash == Init /\ [][NextCrash]_vars

(***************************************************************************)
(* The read methods of the store.  A read yields the store after it, the   *)
(* value returned, and whether that value is one of the store's own lists  *)
(* (so that changing it would change the store) or a new object.           *)
(***************************************************************************)
ReadResult(S, value, aliased) == [S |-> S, value |-> value, aliased |-> aliased]

\* a slip: list_insights looks the list up with setdefault and returns it uncopied
read_setdefault(S, rq) ==
    CASE rq.name = "get_schema" -> ReadResult(S, get_schema(S, rq.d, rq.v), FALSE)
      [] rq.name = "get_analysis" -> ReadResult(S, get_analysis(S, rq.d, rq.v), FALSE)
      [] rq.name = "has_analysis" -> ReadResult(S, has_analysis(S, rq.d, rq.v), FALSE)
      [] rq.name = "get_cached_query" -> ReadResult(S, get_cached_query(S, rq.h, rq.d), FALSE)
      [] rq.name = "insight_exists" -> ReadResult(S, insight_exists(S, rq.h, rq.d), FALSE)
      [] rq.name = "list_versions" -> ReadResult(S, list_versions(S, rq.d), FALSE)
      [] rq.name = "list_insights" ->
            ReadResult([S EXCEPT !.insights_by_dataset =
                           MapPut(@, rq.d, list_insights(S, rq.d))],
                       list_insights(S, rq.d), TRUE)

\* dict.get, `in`, a list comprehension and list(...): none writes, and the two lists
\* returned are new lists
read(S, rq) ==
    CASE rq.name = "get_schema" -> ReadResult(S, get_schema(S, rq.d, rq.v), FALSE)
      [] rq.name = "get_analysis" -> ReadResult(S, get_analysis(S, rq.d, rq.v), FALSE)
      [] rq.name = "has_analysis" -> ReadResult(S, has_analysis(S, rq.d, rq.v), FALSE)
      [] rq.name = "get_cached_query" -> ReadResult(S, get_cached_query(S, rq.h, rq.d), FALSE)
      [] rq.name = "insight_exists" -> ReadResult(S, insight_exists(S, rq.h, rq.d), FALSE)
      [] rq.name = "list_versions" -> ReadResult(S, list_versions(S, rq.d), FALSE)
      [] rq.name = "list_insights" -> ReadResult(S, list_insights(S, rq.d), FALSE)

\* None, False and the empty list
Absent(name) ==
    CASE name \in {"get_schema", "get_analysis", "get_cached_query"} -> NoRecord
      [] name \in {"has_analysis", "insight_exists"} -> FALSE
      [] name \in {"list_versions", "list_insights"} -> <<>>

\* a dataset, a version and two hashes of the records, and a dataset and a version
\* no record has
ReadRequests ==
    LET ReadNames ==
            {"get_schema", "get_analysis", "has_analysis", "get_cached_query",
             "insight_exists", "list_versions", "list_insights"}
    IN
    [name : ReadNames,
     d : {<<100, 49>>, <<100, 51>>},
     v : {VTag(1), VTag(3)},
     h : {<<97>>, <<113>>}]

ReadOp ==
    \E rq \in ReadRequests :
        LET r == read(Store, rq)
        IN  /\ SetStore(r.S)
            /\ last' = [op |-> "read", status |-> 200, version |-> rq.v,
                        cached |-> r.value # Absent(rq.name)]
            /\ UNCHANGED <<analyzed_ok, pc, loc, tmp>>

NextReads ==
    \/ /\ StoreSize(Store) < MaxReadRecords
       /\ (SaveSchemaOp \/ SaveAnalysisOp \/ SaveInsightOp \/ SaveCachedQueryOp)
    \/ ReadOp
    \/ Restart

SpecReads == Init /\ [][NextReads]_vars

(***************************************************************************)
(* synthesize_insights as a function of what it is given and of what the   *)
(* oracle and the embedding service answer.                                *)
(***************************************************************************)
\* replies that are not {"insights": [objects]}: no text, prose, a JSON scalar, an
\* object without "insights", "insights" that is null, a number, a string or an
\* object, an item that is a number, a confidence that is text, a title that is a number
MalformedReplies ==
    LET JNull == [t |-> "null"]
        JNum(n) == [t |-> "num", n |-> n]
        JStr(text) == [t |-> "str", s |-> text]
        JObj(fields) == [t |-> "obj", fields |-> fields]
        \* replies that are not JSON at all, and replies that are a JSON object
        TextReply(kind) == [ok |-> TRUE, text |-> kind]
        ObjectReply(fields) == [ok |-> TRUE, object |-> fields]
    IN
    {TextReply("empty"), TextReply("prose"), TextReply("scalar"),
     ObjectReply([answer |-> JStr(<<97>>)]),
     ObjectReply([insights |-> JNull]),
     ObjectReply([insights |-> JNum(5)]),
     ObjectReply([insights |-> JStr(<<>>)]),
     ObjectReply([insights |-> JStr(<<97>>)]),
     ObjectReply([insights |-> JObj([title |-> JStr(<<116>>)])]),
     ObjectReply([insights |-> JList(<<JNum(1)>>)]),
     ObjectReply([insights |-> JList(<<JObj([title |-> JStr(<<116>>),
                                             confidence |-> JStr(<<104>>)])>>)]),
     ObjectReply([insights |-> JList(<<JObj([title |-> JNum(5),
                                             confidence |-> JNum(1)])>>)])}

InitSynth ==
    LET SynthInputs ==
            LET Repeat(x, n) == [i \in 1..n |-> x]
                \* summaries of the insights stored for the dataset: copies of "x", then "y" or not
                ExistingLists ==
                    {Repeat(<<120>>, n) \o tail :
                        n \in {0, 1, existing_cap - 1, existing_cap}, tail \in {<<>>, <<<<121>>>>}}
                \* a candidate's vector, one at right angles to it, one whose cosine with it is
                \* exactly 22/25 and one whose cosine is less
                Vec1 == <<1, 0, 0, 0>>
                VecOrthogonal == <<0, 1, 0, 0>>
                VecAtThreshold == <<22, 11, 4, 2>>
                VecBelow == <<21, 11, 4, 2>>
                NoEmbedding == [available |-> FALSE]
                EmbedModes ==
                    {NoEmbedding,
                     [available |-> TRUE, short |-> TRUE, of_candidate |-> Vec1,
                      of_summary |-> [x \in {<<120>>, <<121>>} |-> Vec1]]}
                    \cup {[available |-> TRUE, short |-> FALSE, of_candidate |-> Vec1,
                           of_summary |-> [x \in {<<120>>, <<121>>} |->
                                              IF x = <<120>> THEN VecOrthogonal ELSE v]] :
                              v \in {Vec1, VecAtThreshold, VecBelow}}
            IN
            [reply : SynthReplies \cup MalformedReplies,
             existing_insight_summaries : ExistingLists,
             embed : EmbedModes,
             existing_insights_for_dedup : {<<>>, <<[insight_id |-> "i1", summary |-> <<120>>]>>},
             verdict : BOOLEAN]
    IN
    /\ \E S \in {NewStore(FALSE, NoFile)} :
          /\ schemas = S.schemas
          /\ analyses = S.analyses
          /\ insights_by_dataset = S.insights_by_dataset
          /\ insight_semantic_index = S.insight_semantic_index
          /\ query_cache = S.query_cache
          /\ persist_path = S.persist_path
          /\ disk = S.disk
    /\ last = [op |-> "none", status |-> 200, version |-> NoVersion, cached |-> FALSE]
    /\ analyzed_ok = {}
    /\ pc = [t \in Threads |-> IF t = 1 THEN "synthesize" ELSE "idle"]
    /\ \E inp \in SynthInputs :
          loc = [t \in Threads |-> IF t = 1 THEN [op |-> "synthesize", inp |-> inp] ELSE Idle]
    /\ tmp = NoFile

\* reasoner.synthesize_insights(dataset_id="d1", version="v1", ...)
Synthesize ==
    /\ pc[1] = "synthesize"
    /\ pc' = [pc EXCEPT ![1] = "done"]
    /\ loc' = [loc EXCEPT ![1] =
                  [op |-> "synthesize", inp |-> loc[1].inp,
                   out |-> synthesize_cascade(<<100, 49>>, VTag(1), loc[1].inp)]]
    /\ UNCHANGED <<schemas, analyses, insights_by_dataset, insight_semantic_index,
                   query_cache, persist_path, disk, last, analyzed_ok, tmp>>

SpecSynth == InitSynth /\ [][Synthesize]_vars

(***************************************************************************)
(* analysis/schema_engine.py: drift between two schema snapshots.  A       *)
(* snapshot is the map of its columns; a column carries its dtype, its     *)
(* null percentage (in hundredths of a percentage point), its cardinality  *)
(* and its histogram counts (<<>> when the column has no histogram).       *)
(* Numbers are exact rationals n/d.  The 1e-10 that the similarity adds to *)
(* its denominator is kept as the flag `shrunk`: the score is the cosine   *)
(* n/d times a factor that is below 1 by about 1e-10.                      *)
(***************************************************************************)
MaxColumns == 4

\* DistributionDrift.has_significant_drift(p_threshold); p in hundredths
has_significant_drift_either(drift, p_threshold) ==
    IF ~drift.p_value.some THEN FALSE
    ELSE \/ drift.p_value.p < p_threshold
         \/ \/ 5 * drift.similarity_score.n < 4 * drift.similarity_score.d
            \/ /\ 5 * drift.similarity_score.n = 4 * drift.similarity_score.d
               /\ drift.similarity_score.shrunk

has_significant_drift(drift, p_threshold) ==
    IF ~drift.p_value.some THEN FALSE
    ELSE /\ drift.p_value.p < p_threshold
         /\ \/ 5 * drift.similarity_score.n < 4 * drift.similarity_score.d
            \/ /\ 5 * drift.similarity_score.n = 4 * drift.similarity_score.d
               /\ drift.similarity_score.shrunk

\* a slip: the ratio 0.8 is flagged as well
detect_schema_drift_inclusive(base_schema, compare_schema) ==
    LET base_cols == DOMAIN base_schema
        compare_cols == DOMAIN compare_schema
        common_columns == base_cols \cap compare_cols
    IN  [added_columns |-> compare_cols \ base_cols,
         removed_columns |-> base_cols \ compare_cols,
         type_changes |->
             {col \in common_columns : base_schema[col].dtype # compare_schema[col].dtype},
         null_percentage_changes |->
             {col \in common_columns :
                 LET diff == base_schema[col].null_percentage
                             - compare_schema[col].null_percentage
                     null_diff == IF diff < 0 THEN -diff ELSE diff
                 IN  null_diff > 500},
         cardinality_changes |->
             {col \in common_columns :
                 /\ base_schema[col].cardinality > 0
                 /\ \/ 5 * compare_schema[col].cardinality <= 4 * base_schema[col].cardinality
                    \/ 5 * compare_schema[col].cardinality > 6 * base_schema[col].cardinality}]

\* a slip: a difference of exactly 5.0 is flagged as well
detect_schema_drift_from_five(base_schema, compare_schema) ==
    LET base_cols == DOMAIN base_schema
        compare_cols == DOMAIN compare_schema
        common_columns == base_cols \cap compare_cols
    IN  [added_columns |-> compare_cols \ base_cols,
         removed_columns |-> base_cols \ compare_cols,
         type_changes |->
             {col \in common_columns : base_schema[col].dtype # compare_schema[col].dtype},
         null_percentage_changes |->
             {col \in common_columns :
                 LET diff == base_schema[col].null_percentage
                             - compare_schema[col].null_percentage
                     null_diff == IF diff < 0 THEN -diff ELSE diff
                 IN  null_diff >= 500},
         cardinality_changes |->
             {col \in common_columns :
                 /\ base_schema[col].cardinality > 0
                 /\ \/ 5 * compare_schema[col].cardinality < 4 * base_schema[col].cardinality
                    \/ 5 * compare_schema[col].cardinality > 6 * base_schema[col].cardinality}]

\* detect_schema_drift: the lists and dicts of SchemaDrift, by their keys.
\* card_ratio < 0.8 is 5 * compare < 4 * base, card_ratio > 1.2 is 5 * compare > 6 * base
detect_schema_drift(base_schema, compare_schema) ==
    LET base_cols == DOMAIN base_schema
        compare_cols == DOMAIN compare_schema
        common_columns == base_cols \cap compare_cols
    IN  [added_columns |-> compare_cols \ base_cols,
         removed_columns |-> base_cols \ compare_cols,
         type_changes |->
             {col \in common_columns : base_schema[col].dtype # compare_schema[col].dtype},
         null_percentage_changes |->
             {col \in common_columns :
                 LET diff == base_schema[col].null_percentage
                             - compare_schema[col].null_percentage
                     null_diff == IF diff < 0 THEN -diff ELSE diff
                 IN  null_diff > 500},
         cardinality_changes |->
             {col \in common_columns :
                 /\ base_schema[col].cardinality > 0
                 /\ \/ 5 * compare_schema[col].cardinality < 4 * base_schema[col].cardinality
                    \/ 5 * compare_schema[col].cardinality > 6 * base_schema[col].cardinality}]

\* SchemaDrift.has_drift
has_drift(schema_drift) ==
    \/ schema_drift.added_columns # {}
    \/ schema_drift.removed_columns # {}
    \/ schema_drift.type_changes # {}
    \/ schema_drift.null_percentage_changes # {}
    \/ schema_drift.cardinality_changes # {}

\* detect_distribution_drift for a column of both snapshots.  df is what the
\* statistical test gives when both DataFrames are passed, and NoDf when they
\* are not.  The normalisation of the counts cancels in the cosine.
detect_distribution_drift(base_schema, compare_schema, column_name, df) ==
    LET base_counts == base_schema[column_name].histogram_counts
        compare_counts == compare_schema[column_name].histogram_counts
        Sq(a) == Dot(a, a)
        norm(a) == CHOOSE r \in 0..Sq(a) : r * r = Sq(a)
    IN  [p_value |-> df,
         similarity_score |->
             IF base_counts = <<>> \/ compare_counts = <<>>
             THEN [n |-> 1, d |-> 1, shrunk |-> FALSE]
             ELSE IF Dot(base_counts, compare_counts) = 0
             THEN [n |-> 0, d |-> 1, shrunk |-> FALSE]
             ELSE [n |-> Dot(base_counts, compare_counts),
                   d |-> norm(base_counts) * norm(compare_counts),
                   shrunk |-> TRUE]]

\* generate_drift_report: overall_drift_score is n/d, plus about 1e-10 when tiny
generate_drift_report(base_schema, compare_schema, df) ==
    LET schema_drift == detect_schema_drift(base_schema, compare_schema)
        common_columns == (DOMAIN base_schema) \cap (DOMAIN compare_schema)
        distribution_drifts ==
            [col \in common_columns |->
                detect_distribution_drift(base_schema, compare_schema, col, df)]
        nb == Cardinality(DOMAIN base_schema)
        m == Cardinality(common_columns)
        \* the sum of the similarity scores of the columns in S, as a fraction
        sum[S \in SUBSET common_columns] ==
            IF S = {} THEN [n |-> 0, d |-> 1]
            ELSE LET col == CHOOSE c \in S : TRUE
                     rest == sum[S \ {col}]
                     sim == distribution_drifts[col].similarity_score
                 IN  [n |-> sim.n * rest.d + rest.n * sim.d, d |-> sim.d * rest.d]
        total == sum[common_columns]
        \* the sum of the components and their number
        schema_part ==
            IF nb > 0
            THEN [n |-> Cardinality(schema_drift.added_columns)
                        + Cardinality(schema_drift.removed_columns)
                        + Cardinality(schema_drift.type_changes),
                  d |-> nb, k |-> 3]
            ELSE [n |-> 0, d |-> 1, k |-> 0]
        distribution_part ==
            IF m > 0
            THEN [n |-> m * total.d - total.n, d |-> m * total.d, k |-> 1]
            ELSE [n |-> 0, d |-> 1, k |-> 0]
        k == schema_part.k + distribution_part.k
    IN  [schema_drift |-> schema_drift,
         distribution_drifts |-> distribution_drifts,
         \* DriftReport.has_drift(), with the default p_threshold of 0.05
         has_drift |->
             \/ has_drift(schema_drift)
             \/ \E col \in common_columns :
                    has_significant_drift(distribution_drifts[col], 5),
         overall_drift_score |->
             IF k = 0 THEN [n |-> 0, d |-> 1, tiny |-> FALSE]
             ELSE [n |-> schema_part.n * distribution_part.d
                         + distribution_part.n * schema_part.d,
                   d |-> schema_part.d * distribution_part.d * k,
                   tiny |-> \E col \in common_columns :
                                distribution_drifts[col].similarity_score.shrunk]]

\* the snapshots compared: base has the columns 1..i and compare the columns j..k,
\* every column of a snapshot with the same null percentage, cardinality, dtype
\* and histogram; the test's p-value when DataFrames are passed
InitDrift ==
    LET NoDf == [some |-> FALSE]
        \* the counts of a 10-bin histogram of more than 10 values
        H(a, b) == <<a, b, 0, 0, 0, 0, 0, 0, 0, 0>>
        DriftInputs ==
            [base_cols : {1..i : i \in 0..2},
             compare_cols : {j..k : j \in 1..MaxColumns, k \in 0..MaxColumns},
             base_col : [dtype : {"int64"}, null_percentage : {1000, 1501},
                         cardinality : {0, 100}, histogram_counts : {<<>>, H(9, 12)}],
             compare_col : [dtype : {"int64", "float64"},
                            null_percentage : {499, 500, 1000, 1500, 1501},
                            cardinality : {0, 79, 80, 100, 120, 121},
                            histogram_counts :
                                {<<>>, H(9, 12), H(12, 9), H(0, 21), H(15, 0)}],
             df : {NoDf} \cup {[some |-> TRUE, p |-> x] : x \in {1, 5, 20}},
             p_threshold : {5}]
    IN
    /\ \E S \in {NewStore(FALSE, NoFile)} :
          /\ schemas = S.schemas
          /\ analyses = S.analyses
          /\ insights_by_dataset = S.insights_by_dataset
          /\ insight_semantic_index = S.insight_semantic_index
          /\ query_cache = S.query_cache
          /\ persist_path = S.persist_path
          /\ disk = S.disk
    /\ last = [op |-> "none", status |-> 200, version |-> NoVersion, cached |-> FALSE]
    /\ analyzed_ok = {}
    /\ pc = [t \in Threads |-> IF t = 1 THEN "drift" ELSE "idle"]
    /\ \E inp \in DriftInputs :
          loc = [t \in Threads |->
                    IF t = 1
                    THEN [op |-> "drift", inp |-> inp,
                          base |-> [c \in inp.base_cols |-> inp.base_col],
                          compare |-> [c \in inp.compare_cols |-> inp.compare_col]]
                    ELSE Idle]
    /\ tmp = NoFile

\* schema_engine.generate_drift_report(base_schema, comp_schema, base_df, compare_df)
GenerateDriftReport ==
    /\ pc[1] = "drift"
    /\ pc' = [pc EXCEPT ![1] = "done"]
    /\ loc' = [loc EXCEPT ![1] =
                  [op |-> "drift", inp |-> loc[1].inp,
                   base |-> loc[1].base, compare |-> loc[1].compare,
                   report |-> generate_drift_report(loc[1].base, loc[1].compare,
                                                    loc[1].inp.df)]]
    /\ UNCHANGED <<schemas, analyses, insights_by_dataset, insight_semantic_index,
                   query_cache, persist_path, disk, last, analyzed_ok, tmp>>

SpecDrift == InitDrift /\ [][GenerateDriftReport]_vars

(***************************************************************************)
(* reasoning/insight_reasoner.py: the semantic hash of a dedup key, as a   *)
(* function of the key alone.  Keys are drawn over a letter in both cases, *)
(* a space, a hyphen and a punctuation character.                          *)
(***************************************************************************)
MaxKeyLen == 3

InitHash ==
    LET KeyChars == {97, 65, 32, 45, 46}
        Keys == UNION {[1..n -> KeyChars] : n \in 0..MaxKeyLen}
    IN
    /\ \E S \in {NewStore(FALSE, NoFile)} :
          /\ schemas = S.schemas
          /\ analyses = S.analyses
          /\ insights_by_dataset = S.insights_by_dataset
          /\ insight_semantic_index = S.insight_semantic_index
          /\ query_cache = S.query_cache
          /\ persist_path = S.persist_path
          /\ disk = S.disk
    /\ last = [op |-> "none", status |-> 200, version |-> NoVersion, cached |-> FALSE]
    /\ analyzed_ok = {}
    /\ pc = [t \in Threads |-> IF t = 1 THEN "hash" ELSE "idle"]
    /\ \E k \in Keys :
          loc = [t \in Threads |-> IF t = 1 THEN [op |-> "hash", dedup_key |-> k] ELSE Idle]
    /\ tmp = NoFile

\* InsightReasoner._normalize_text(dedup_key) and InsightReasoner.semantic_hash(dedup_key)
SemanticHash ==
    /\ pc[1] = "hash"
    /\ pc' = [pc EXCEPT ![1] = "done"]
    /\ loc' = [loc EXCEPT ![1] =
                  [op |-> "hash", dedup_key |-> loc[1].dedup_key,
                   norm |-> normalize_text(loc[1].dedup_key),
                   sem_hash |-> semantic_hash(loc[1].dedup_key)]]
    /\ UNCHANGED <<schemas, analyses, insights_by_dataset, insight_semantic_index,
                   query_cache, persist_path, disk, last, analyzed_ok, tmp>>

SpecHash == InitHash /\ [][SemanticHash]_vars

(***************************************************************************)
(* reasoning/insight_reasoner.py: the optional compression of a prompt on  *)
(* its way to the oracle.  The compression client is absent, or its        *)
(* compress call returns a text, or it raises an exception.                *)
(***************************************************************************)
MaxPromptLen == 3

\* a slip: a failure of compress leaves the method as an exception
maybe_compress_prompt_propagate(compression_client, prompt) ==
    IF ~compression_client.some THEN [raised |-> FALSE, error |-> "", value |-> prompt]
    ELSE IF compression_client.raises
         THEN [raised |-> TRUE, error |-> compression_client.error, value |-> <<>>]
         ELSE [raised |-> FALSE, error |-> "", value |-> compression_client.value]

\* InsightReasoner._maybe_compress_prompt(prompt): what the call returns, or raises
maybe_compress_prompt(compression_client, prompt) ==
    IF ~compression_client.some THEN [raised |-> FALSE, error |-> "", value |-> prompt]
    ELSE IF compression_client.raises
         THEN [raised |-> FALSE, error |-> "", value |-> prompt]
         ELSE [raised |-> FALSE, error |-> "", value |-> compression_client.value]

InitPrompt ==
    LET Prompts == UNION {[1..n -> {97, 98}] : n \in 0..MaxPromptLen}
        \* self.compression_client and what its compress(prompt) does
        Clients(prompt) ==
            {[some |-> FALSE, raises |-> FALSE, error |-> "", value |-> <<>>]}
            \cup {[some |-> TRUE, raises |-> TRUE, error |-> e, value |-> <<>>] :
                     e \in {"ScaledownClientError", "TimeoutError", "KeyError"}}
            \cup {[some |-> TRUE, raises |-> FALSE, error |-> "", value |-> v] :
                     v \in {<<>>, <<99>>, prompt}}
    IN
    /\ \E S \in {NewStore(FALSE, NoFile)} :
          /\ schemas = S.schemas
          /\ analyses = S.analyses
          /\ insights_by_dataset = S.insights_by_dataset
          /\ insight_semantic_index = S.insight_semantic_index
          /\ query_cache = S.query_cache
          /\ persist_path = S.persist_path
          /\ disk = S.disk
    /\ last = [op |-> "none", status |-> 200, version |-> NoVersion, cached |-> FALSE]
    /\ analyzed_ok = {}
    /\ pc = [t \in Threads |-> IF t = 1 THEN "prompt" ELSE "idle"]
    /\ \E method \in {"synthesize_insights", "answer_query"}, prompt \in Prompts :
          \E client \in Clients(prompt) :
              loc = [t \in Threads |->
                        IF t = 1
                        THEN [op |-> "prompt", method |-> method, prompt |-> prompt,
                              compression_client |-> client]
                        ELSE Idle]
    /\ tmp = NoFile

\* synthesize_insights, lines 358-369, and answer_query, lines 444-455: the prompt is
\* built, passed through _maybe_compress_prompt and handed to self.llm.complete
CompressAndComplete ==
    /\ pc[1] = "prompt"
    /\ pc' = [pc EXCEPT ![1] = "done"]
    /\ LET compressed == maybe_compress_prompt(loc[1].compression_client, loc[1].prompt)
       IN loc' = [loc EXCEPT ![1] =
                     [op |-> "prompt", method |-> loc[1].method, prompt |-> loc[1].prompt,
                      compression_client |-> loc[1].compression_client,
                      returned |-> compressed,
                      \* an exception leaves the method before the oracle is called
                      aborted |-> compressed.raised,
                      llm_called |-> ~compressed.raised,
                      llm_prompt |-> IF compressed.raised THEN <<>> ELSE compressed.value]]
    /\ UNCHANGED <<schemas, analyses, insights_by_dataset, insight_semantic_index,
                   query_cache, persist_path, disk, last, analyzed_ok, tmp>>

SpecPrompt == InitPrompt /\ [][CompressAndComplete]_vars

(***************************************************************************)
(* Start-up on a file that some other program, or a person, left at        *)
(* persist_path.                                                           *)
(***************************************************************************)

\* JSON objects with any of the four arrays, each array holding one record
LoadObjects ==
    LET \* one record of each array as _save writes it, and one with a field missing
        GoodItem(key) ==
            CASE key = "schemas" -> StoredSchema(<<100, 49>>, VTag(1), 1, [columns |-> 1])
              [] key = "analyses" -> StoredAnalysis(<<100, 49>>, VTag(1), [signals |-> 1], 1)
              [] key = "insights" -> StoredInsight("i1", <<100, 49>>, VTag(1), "s1", 1, <<97>>)
              [] key = "query_cache" -> QueryCacheEntry(<<113>>, <<100, 49>>, "yes", 1)
        BadItem(key) == [dataset_id |-> <<100, 49>>]
    IN
    UNION {{[key \in K |-> <<IF key \in B THEN BadItem(key) ELSE GoodItem(key)>>] :
               B \in SUBSET K} : K \in SUBSET PayloadKeys}

InitLoad ==
    LET JsonArray == [kind |-> "array"]
        LoadFiles == {NoFile, Blank, Garbage, JsonArray} \cup LoadObjects
    IN
    /\ \E S \in {NewStore(FALSE, NoFile)} :
          /\ schemas = S.schemas
          /\ analyses = S.analyses
          /\ insights_by_dataset = S.insights_by_dataset
          /\ insight_semantic_index = S.insight_semantic_index
          /\ query_cache = S.query_cache
    /\ persist_path = TRUE
    /\ disk \in LoadFiles
    /\ last = [op |-> "none", status |-> 200, version |-> NoVersion, cached |-> FALSE]
    /\ analyzed_ok = {}
    /\ pc = [t \in Threads |-> "idle"]
    /\ loc = [t \in Threads |-> Idle]
    /\ tmp = NoFile

\* create_app: store = MemoryStore(persist_path=...); an exception of _load ends it
StartUp ==
    /\ last.op = "none"
    /\ LET S == NewStore(persist_path, disk)
       IN  IF S = Raised
           THEN /\ last' = [op |-> "startup", status |-> 500, version |-> NoVersion,
                            cached |-> FALSE]
                /\ UNCHANGED <<schemas, analyses, insights_by_dataset,
                               insight_semantic_index, query_cache, persist_path, disk>>
           ELSE /\ last' = [op |-> "startup", status |-> 200, version |-> NoVersion,
                            cached |-> FALSE]
                /\ SetStore(S)
    /\ UNCHANGED <<analyzed_ok, pc, loc, tmp>>

SpecLoad == InitLoad /\ [][StartUp]_vars

(***************************************************************************)
(* Properties.                                                             *)
(***************************************************************************)
Recorded(d, h) == {k \in DOMAIN schemas : k[1] = d /\ schemas[k].file_hash = h}

\* C1: ingesting under dataset d a content whose fingerprint is recorded for a version
\* of d (the latest or an earlier one) answers that version with cached = true, makes
\* no call and leaves the whole store, snapshot included, as it was
T_C1 ==
    \A run \in LedgerRuns :
        (run.file # NoFile /\ Recorded(run.d, run.file.content) # {}) =>
            /\ run.r.resp.status = 200
            /\ run.r.resp.body.cached
            /\ \E k \in Recorded(run.d, run.file.content) : run.r.resp.body.version = k[2]
            /\ run.r.calls = <<>>
            /\ run.r.S = Store

W_C1 ==
    /\ last.op = "ingest" /\ last.cached /\ last.version = VTag(2)
    /\ \A d \in Datasets : Len(list_versions(Store, d)) >= 10

\* C2: list_versions(d) is v1, v2, ..., vN for the N contents ingested under d
CE_C2 ==
    \A d \in Datasets :
        LET vs == list_versions(Store, d)
        IN  /\ Len(vs) = Cardinality({k \in DOMAIN schemas : k[1] = d})
            /\ \A i \in 1..Len(vs) : vs[i] = VTag(i)

\* C3: no two versions of a dataset carry the same fingerprint; no step (a request or
\* a restart) changes or removes a schema record; a step adds a record only when it is
\* an ingest of a fingerprint not yet recorded for the dataset
T_C3 ==
    /\ [](\A k1 \in DOMAIN schemas, k2 \in DOMAIN schemas :
             (k1[1] = k2[1] /\ schemas[k1].file_hash = schemas[k2].file_hash) => k1 = k2)
    /\ [][/\ \A k \in DOMAIN schemas : k \in DOMAIN schemas' /\ schemas'[k] = schemas[k]
          /\ \A k \in (DOMAIN schemas') \ (DOMAIN schemas) :
                /\ last'.op = "ingest" /\ last'.version = k[2] /\ ~last'.cached
                /\ schemas'[k].dataset_id = k[1] /\ schemas'[k].version = k[2]
                /\ Recorded(k[1], schemas'[k].file_hash) = {}]_vars

W_C3 ==
    /\ last.op = "analyze" /\ last.status = 200
    /\ \E d \in Datasets : Len(list_versions(Store, d)) = 2

Count(calls, name) == Cardinality({i \in 1..Len(calls) : calls[i] = name})

\* C6: an analyze request for a (dataset_id, version) that an earlier analyze request
\* completed for computes no statistics and does not call the oracle
CE_C6 ==
    \A run \in AnalyzeRuns :
        <<run.d, run.r.version>> \in analyzed_ok =>
            /\ Count(run.r.calls, "analyze_file") = 0
            /\ Count(run.r.calls, "llm.complete") = 0

QuestionTexts == Questions \cup {<<113, 124, 113>>, <<49, 124, 113>>}   \* "q|q", "1|q"

\* C7: a query whose (dataset_id, version, question) is in the cache answers the
\* cached response with cached = true, calls nothing and leaves the store as it was;
\* a query that is not in the cache and is answered writes exactly its own entry;
\* distinct (version, question) pairs of a dataset have distinct keys; and no step
\* changes or removes a cache entry
T_C7 ==
    /\ [](\A run \in QueryRuns :
            LET key == <<run.d, stable_hash(query_text(run.d, run.r.version, run.q))>>
            IN  /\ (run.r.version # NoVersion /\ key \in DOMAIN query_cache) =>
                      /\ run.r.resp.status = 200
                      /\ run.r.resp.body.cached
                      /\ run.r.resp.body.answer = query_cache[key].response
                      /\ run.r.calls = <<>>
                      /\ run.r.S = Store
                /\ (run.r.resp.status = 200 /\ ~run.r.resp.body.cached) =>
                      /\ key \notin DOMAIN query_cache
                      /\ DOMAIN run.r.S.query_cache = (DOMAIN query_cache) \cup {key}
                      /\ run.r.S.query_cache[key].response = run.reply.answer)
    /\ [](\A k1 \in DOMAIN schemas, k2 \in DOMAIN schemas :
            \A q1 \in QuestionTexts, q2 \in QuestionTexts :
                (k1[1] = k2[1] /\ (k1[2] # k2[2] \/ q1 # q2)) =>
                    stable_hash(query_text(k1[1], k1[2], q1))
                        # stable_hash(query_text(k2[1], k2[2], q2)))
    /\ [][\A k \in DOMAIN query_cache :
            k \in DOMAIN query_cache' /\ query_cache'[k] = query_cache[k]]_vars

W_C7 ==
    /\ last.op = "query" /\ last.cached /\ last.version = VTag(1)
    /\ \E k \in DOMAIN query_cache :
          /\ DOMAIN query_cache = {k}
          /\ <<k[1], VTag(2)>> \in DOMAIN schemas

\* C8: when the oracle call of an analyze request fails, the response is 502, no insight
\* is stored, the schema and analysis records of the version are present and every
\* record stored before is unchanged; when the oracle call of a query fails, the
\* response is 502 and the store is unchanged; the oracle is called once; and 502 is
\* answered in no other case
T_C8 ==
    /\ \A run \in AnalyzeRunsOf({Fail}) :
          Count(run.r.calls, "llm.complete") > 0 =>
              /\ run.r.resp.status = 502
              /\ Count(run.r.calls, "llm.complete") = 1
              /\ Count(run.r.calls, "save_insight") = 0
              /\ run.r.S.insights_by_dataset = insights_by_dataset
              /\ run.r.S.insight_semantic_index = insight_semantic_index
              /\ run.r.S.schemas = schemas
              /\ run.r.S.query_cache = query_cache
              /\ get_schema(run.r.S, run.d, run.r.version) # NoRecord
              /\ has_analysis(run.r.S, run.d, run.r.version)
              /\ \A k \in DOMAIN analyses :
                    k \in DOMAIN run.r.S.analyses /\ run.r.S.analyses[k] = analyses[k]
    /\ \A run \in QueryRunsOf({Fail}) :
          Count(run.r.calls, "llm.complete") > 0 =>
              /\ run.r.resp.status = 502
              /\ Count(run.r.calls, "llm.complete") = 1
              /\ run.r.S = Store
    /\ \A run \in AnalyzeRunsOf(SynthReplies \ {Fail}) \cup QueryRunsOf(QueryReplies \ {Fail}) :
          run.r.resp.status # 502

W_C8 ==
    /\ last.op = "analyze" /\ last.status = 502
    /\ \E d \in Datasets :
          /\ <<d, last.version>> \in DOMAIN analyses
          /\ list_insights(Store, d) = <<>>

WithHash(d, h) ==
    LET lst == list_insights(Store, d)
    IN  {i \in 1..Len(lst) : lst[i].semantic_hash = h}

\* C4: for every (dataset_id, semantic_hash) the insight list holds at most one record,
\* exactly one when the pair is in the semantic index, and the index holds that
\* record's id; save_insight of a record whose pair is in the index changes nothing,
\* save_insight of any other record appends it; and no step moves, changes or removes
\* a stored insight record or an index entry
T_C4 ==
    /\ [](\A d \in Datasets, h \in {i.semantic_hash : i \in StoreInsights} :
            /\ Cardinality(WithHash(d, h)) <= 1
            /\ insight_exists(Store, h, d) <=> WithHash(d, h) # {}
            /\ \A i \in WithHash(d, h) :
                  /\ insight_semantic_index[<<d, h>>] = list_insights(Store, d)[i].insight_id
                  /\ list_insights(Store, d)[i].dataset_id = d)
    /\ [](\A insight \in StoreInsights :
            LET S2 == save_insight(Store, insight)
                d == insight.dataset_id
            IN  IF insight_exists(Store, insight.semantic_hash, d)
                THEN S2 = Store
                ELSE /\ list_insights(S2, d) = Append(list_insights(Store, d), insight)
                     /\ \A e \in Datasets \ {d} : list_insights(S2, e) = list_insights(Store, e)
                     /\ S2.insight_semantic_index =
                            MapPut(insight_semantic_index,
                                   <<d, insight.semantic_hash>>, insight.insight_id))
    /\ [][/\ \A d \in Datasets :
               LET old == list_insights(Store, d)
               IN  /\ d \in DOMAIN insights_by_dataset => d \in DOMAIN insights_by_dataset'
                   /\ old # <<>> =>
                         /\ Len(insights_by_dataset'[d]) >= Len(old)
                         /\ SubSeq(insights_by_dataset'[d], 1, Len(old)) = old
          /\ \A k \in DOMAIN insight_semantic_index :
               /\ k \in DOMAIN insight_semantic_index'
               /\ insight_semantic_index'[k] = insight_semantic_index[k]]_vars

\* a record of v2 was refused because its pair is stored, and every stored record is of v1
W_C4 ==
    /\ last.op = "save_insight" /\ last.cached /\ last.version = VTag(2)
    /\ \E d \in Datasets : list_insights(Store, d) # <<>>
    /\ \A d \in Datasets :
          \A i \in 1..Len(list_insights(Store, d)) :
              list_insights(Store, d)[i].version = VTag(1)

\* C5: after save_analysis(A), has_analysis is true of A's key and get_analysis returns A;
\* whenever has_analysis is true of a key, get_analysis returns a record with every
\* field, stored under its own key; and a store constructed from the snapshot that
\* save_analysis(A) wrote has A under A's key as well
T_C5 ==
    /\ \A A \in StoreAnalyses :
          LET S2 == save_analysis(Store, A)
              S3 == NewStore(TRUE, S2.disk)
          IN  /\ has_analysis(S2, A.dataset_id, A.version)
              /\ get_analysis(S2, A.dataset_id, A.version) = A
              /\ persist_path =>
                    /\ S2.disk # NoFile
                    /\ has_analysis(S3, A.dataset_id, A.version)
                    /\ get_analysis(S3, A.dataset_id, A.version) = A
                    /\ \A k \in DOMAIN S2.analyses :
                          k \in DOMAIN S3.analyses /\ S3.analyses[k] = S2.analyses[k]
    /\ \A d \in Datasets, v \in StoreVersions :
          has_analysis(Store, d, v) =>
              LET a == get_analysis(Store, d, v)
              IN  /\ a # NoRecord
                  /\ DOMAIN a = {"dataset_id", "version", "analysis_result", "created_at"}
                  /\ a.dataset_id = d /\ a.version = v

\* the store was started again on a snapshot that holds an analysis record
W_C5 ==
    /\ last.op = "restart"
    /\ persist_path
    /\ \E d \in Datasets, v \in StoreVersions :
          /\ has_analysis(Store, d, v)
          /\ get_analysis(Store, d, v) \in StoreAnalyses
          /\ get_analysis(Store, d, v).analysis_result = [signals |-> 2]

\* both workers hold the response of a request of kind op for dataset d, and the two
\* requests overlapped
BothDone(op, d) ==
    \A t \in Threads :
        /\ pc[t] = "done"
        /\ loc[t].op = op /\ loc[t].d = d /\ loc[t].conc
        /\ loc[t].resp.status = 200

\* C9: when two overlapping ingest requests for one dataset_id with two distinct
\* contents have both been answered, their version tags differ and each tag's schema
\* record is present with the fingerprint of the request that was given the tag
CE_C9 ==
    \A d \in Datasets :
        (BothDone("ingest", d) /\ loc[1].file # loc[2].file) =>
            /\ loc[1].resp.version # loc[2].resp.version
            /\ \A t \in Threads :
                  LET s == get_schema(Store, d, loc[t].resp.version)
                  IN  s # NoRecord /\ s.file_hash = loc[t].file.content

\* C10: when two overlapping analyze requests for one dataset have both been answered
\* and both synthesised an insight with the same semantic_hash, the insight list of the
\* dataset holds exactly one record with that hash and the semantic index holds its id
CE_C10 ==
    \A d \in Datasets :
        BothDone("analyze", d) =>
            \A h \in loc[1].hashes \cap loc[2].hashes :
                /\ Cardinality(WithHash(d, h)) = 1
                /\ \A i \in WithHash(d, h) :
                      insight_semantic_index[<<d, h>>] = list_insights(Store, d)[i].insight_id

\* the store a new process builds from the snapshot file equals the memory given
LoadsAs(file, mem) ==
    IF file = NoFile THEN mem = Mem(NewStore(TRUE, NoFile))
    ELSE ~LoadRaises(file) /\ Mem(NewStore(TRUE, file)) = mem

\* C11: no call of either pipeline raises, and when both pipelines are at rest the
\* snapshot file loads as the in-memory state, which holds the records of both
CE_C11 ==
    /\ \A t \in Threads : pc[t] # "failed"
    /\ (persist_path /\ \A t \in Threads : pc[t] = "idle") => LoadsAs(disk, Mem(Store))

\* C12: with one worker, at every step of a mutating call the snapshot file is absent
\* or complete, and a process started on it holds the state before the call or the
\* state after it; the same is true of the process started after a crash
T_C12 ==
    persist_path =>
        /\ disk \notin {Blank, Garbage}
        /\ IF pc[1] = "idle" THEN LoadsAs(disk, Mem(Store))
           ELSE LoadsAs(disk, Mem(Store)) \/ LoadsAs(disk, loc[1].before)

\* the process crashed while the temporary file was half written and came up again
\* with the records of the previous snapshot
W_C12 ==
    /\ last.op = "crash"
    /\ tmp \in {Blank, Garbage}
    /\ pc[1] = "idle"
    /\ StoreSize(Store) >= 1
    /\ disk # NoFile

\* a JSON object that holds the four arrays, every item with the fields of its record
WellFormed(file) ==
    /\ "kind" \notin DOMAIN file
    /\ PayloadKeys \subseteq DOMAIN file
    /\ \A key \in PayloadKeys :
          \A i \in 1..Len(file[key]) : DOMAIN file[key][i] = FieldsOf(key)

\* C13: a start-up on an existing file that is not a well-formed snapshot raises
CE_C13 ==
    (last.op = "startup" /\ disk # NoFile /\ ~WellFormed(disk)) => last.status = 500

\* C14: with persistence on, the snapshot file after any sequence of mutating calls,
\* loaded into a new store, gives the five maps of the store that wrote it, the insight
\* lists in the same order; and loading a snapshot into a store that holds records
\* gives what loading it into an empty store gives
T_C14 ==
    persist_path =>
        /\ LoadsAs(disk, Mem(Store))
        /\ \A file \in {f \in LoadObjects : WellFormed(f)} \cup {payload_of(NewStore(TRUE, NoFile))} :
              Mem(store_load([Store EXCEPT !.disk = file])) = Mem(NewStore(TRUE, file))

\* a snapshot with a record of every kind, written after the last mutating call
W_C14 ==
    /\ persist_path /\ disk # NoFile
    /\ last.op = "save_insight" /\ ~last.cached
    /\ schemas # EmptyMap /\ analyses # EmptyMap /\ query_cache # EmptyMap
    /\ \E d \in Datasets : Len(list_insights(Store, d)) = 1

\* the key a read looks up is in the map the read looks it up in
Written(rq) ==
    CASE rq.name = "get_schema" -> <<rq.d, rq.v>> \in DOMAIN schemas
      [] rq.name \in {"get_analysis", "has_analysis"} -> <<rq.d, rq.v>> \in DOMAIN analyses
      [] rq.name = "get_cached_query" -> <<rq.d, rq.h>> \in DOMAIN query_cache
      [] rq.name = "insight_exists" -> <<rq.d, rq.h>> \in DOMAIN insight_semantic_index
      [] rq.name = "list_versions" -> \E k \in DOMAIN schemas : k[1] = rq.d
      [] rq.name = "list_insights" -> rq.d \in DOMAIN insights_by_dataset

\* C15: every read leaves the maps and the snapshot file as they were, returns a value
\* that shares nothing with the store, and for a key that was never written returns
\* None, False or the empty list, and something else for a key that was written
T_C15 ==
    \A rq \in ReadRequests :
        LET r == read(Store, rq)
        IN  /\ r.S = Store
            /\ ~r.aliased
            /\ Written(rq) <=> r.value # Absent(rq.name)

\* a read of a key that was never written, on a store that holds records
W_C15 ==
    /\ last.op = "read" /\ ~last.cached
    /\ last.version = VTag(3)
    /\ StoreSize(Store) >= 2

\* C16: for a dataset with N >= 1 ingested versions the version analyze and query use
\* when none is given is vN, no tag of the dataset has a larger number, and it is the
\* tag the last uncached ingest of the dataset was given; for a dataset with no
\* version there is none and both requests answer 404
T_C16 ==
    /\ [](\A d \in Datasets :
            LET vs == list_versions(Store, d)
                N == Len(vs)
                a == analyze(Store, d, NoVersion, File(1), Fail, 1)
                q == query(Store, d, NoVersion, <<113>>, Fail, 1)
            IN  IF N = 0
                THEN /\ resolve_version(Store, d, NoVersion) = NoVersion
                     /\ a.resp.status = 404 /\ q.resp.status = 404
                ELSE /\ resolve_version(Store, d, NoVersion) = VTag(N)
                     /\ VTag(N) \in Range(vs)
                     /\ \A i \in 1..N : parse_vnum(vs[i]) <= N
                     /\ a.version = VTag(N) /\ q.version = VTag(N))
    /\ [][\A k \in (DOMAIN schemas') \ (DOMAIN schemas) :
             /\ k[2] = last'.version
             /\ latest_version(SortedList({x[2] : x \in {y \in DOMAIN schemas' : y[1] = k[1]}}))
                    = k[2]]_vars

\* the tenth version of a dataset has just been allocated
W_C16 ==
    /\ last.op = "ingest" /\ ~last.cached /\ last.version = VTag(10)
    /\ \E d \in Datasets : Len(list_versions(Store, d)) = 10

\* synthesize_insights has returned (not raised) for the input of worker 1
Synthesized == pc[1] = "done" /\ loc[1].op = "synthesize" /\ loc[1].out.raised = "none"

CalledFor(out, call, i) ==
    \E k \in 1..Len(out.calls) : out.calls[k].call = call /\ out.calls[k].cand = i

\* C17: the batch returned holds no two insights with one semantic_hash; a candidate
\* is dropped by the first pass exactly when a candidate accepted before it in the
\* batch has its semantic_hash, and then no embed and no judgment call is made for it;
\* with no embeddings and no list for the judgment the batch is the one analyze stores
T_C17 ==
    Synthesized =>
        LET inp == loc[1].inp
            out == loc[1].out
        IN  /\ \A i \in 1..Len(out.insights), j \in 1..Len(out.insights) :
                  i # j => out.insights[i].semantic_hash # out.insights[j].semantic_hash
            /\ \A i \in 1..Len(out.fates) :
                  out.fates[i] = "tier1" =>
                      ~CalledFor(out, "embed", i) /\ ~CalledFor(out, "judge", i)
            /\ "insights" \in DOMAIN inp.reply =>
                  LET hash(i) == semantic_hash(CandidateFields(inp.reply.insights[i]).dedup_key)
                  IN  /\ Len(out.fates) = Len(inp.reply.insights)
                      /\ \A i \in 1..Len(out.fates) :
                            out.fates[i] = "tier1" <=>
                                \E j \in 1..(i - 1) :
                                    out.fates[j] = "accepted" /\ hash(j) = hash(i)
                      /\ (~inp.embed.available /\ inp.existing_insights_for_dedup = <<>>) =>
                            out.insights =
                                synthesize_insights(<<100, 49>>, VTag(1), inp.reply.insights)

\* the second candidate of a batch has the semantic_hash of the first, and embeddings
\* and the list for the judgment are there
W_C17 ==
    /\ Synthesized
    /\ loc[1].out.fates = <<"accepted", "tier1">>
    /\ loc[1].inp.embed.available /\ ~loc[1].inp.embed.short
    /\ loc[1].inp.existing_insights_for_dedup # <<>>

\* C18: the judgment call is made for a candidate that passed the first pass exactly
\* when embed returned None and the dataset has prior insights, and a verdict of
\* duplicate drops the candidate
CE_C18 ==
    Synthesized =>
        LET inp == loc[1].inp
            out == loc[1].out
        IN  \A i \in 1..Len(out.fates) :
                out.fates[i] # "tier1" =>
                    /\ CalledFor(out, "judge", i) <=>
                          (/\ ~inp.embed.available
                           /\ \/ inp.existing_insight_summaries # <<>>
                              \/ inp.existing_insights_for_dedup # <<>>)
                    /\ (CalledFor(out, "judge", i) /\ inp.verdict) => out.fates[i] = "tier3"

\* C19: with embeddings, a candidate that passed the first pass is dropped by the
\* second exactly when its similarity with the summary of some stored insight of the
\* dataset, whichever, is at least the threshold
CE_C19 ==
    (Synthesized /\ loc[1].inp.embed.available /\ ~loc[1].inp.embed.short) =>
        LET inp == loc[1].inp
            out == loc[1].out
        IN  \A i \in 1..Len(out.fates) :
                out.fates[i] # "tier1" =>
                    (out.fates[i] = "tier2" <=>
                        \E k \in 1..Len(inp.existing_insight_summaries) :
                            SimilarityMeets(inp.embed.of_candidate,
                                            inp.embed.of_summary[inp.existing_insight_summaries[k]]))

\* C20: for a reply that is not {"insights": [objects]} synthesize_insights returns
\* the empty list and does not raise
CE_C20 ==
    (pc[1] = "done" /\ loc[1].op = "synthesize" /\ loc[1].inp.reply \in MalformedReplies) =>
        /\ loc[1].out.raised = "none"
        /\ loc[1].out.insights = <<>>

\* generate_drift_report has returned for the snapshots of worker 1
Reported == pc[1] = "done" /\ loc[1].op = "drift"

\* C21: overall_drift_score of every report is at least 0 and at most 1
CE_C21 ==
    Reported =>
        LET score == loc[1].report.overall_drift_score
        IN  /\ score.n >= 0
            /\ \/ score.n < score.d
               \/ score.n = score.d /\ ~score.tiny

\* C22: for identical snapshots, with or without histograms, the report has no
\* added, removed, type, null-percentage or cardinality flag, has_drift() is false
\* and overall_drift_score is 0.0
CE_C22 ==
    (Reported /\ loc[1].base = loc[1].compare) =>
        LET report == loc[1].report
        IN  /\ report.schema_drift.added_columns = {}
            /\ report.schema_drift.removed_columns = {}
            /\ report.schema_drift.type_changes = {}
            /\ report.schema_drift.null_percentage_changes = {}
            /\ report.schema_drift.cardinality_changes = {}
            /\ ~has_drift(report.schema_drift)
            /\ ~report.has_drift
            /\ report.overall_drift_score.n = 0
            /\ ~report.overall_drift_score.tiny

\* C23: a column of both snapshots is in cardinality_changes exactly when the base
\* cardinality is positive and compare/base is below 0.8 or above 1.2; 100 -> 80 and
\* 100 -> 120 are not flagged, 100 -> 79 and 100 -> 121 are, a base of 0 never is
T_C23 ==
    Reported =>
        LET flagged == loc[1].report.schema_drift.cardinality_changes
            b == loc[1].inp.base_col.cardinality
            c == loc[1].inp.compare_col.cardinality
        IN  /\ flagged \subseteq (DOMAIN loc[1].base) \cap (DOMAIN loc[1].compare)
            /\ \A col \in (DOMAIN loc[1].base) \cap (DOMAIN loc[1].compare) :
                  /\ col \in flagged <=>
                        (loc[1].base[col].cardinality > 0
                         /\ (5 * loc[1].compare[col].cardinality
                                < 4 * loc[1].base[col].cardinality
                             \/ 5 * loc[1].compare[col].cardinality
                                > 6 * loc[1].base[col].cardinality))
                  /\ (b = 100 /\ c \in {80, 100, 120}) => col \notin flagged
                  /\ (b = 100 /\ c \in {0, 79, 121}) => col \in flagged
                  /\ b = 0 => col \notin flagged

\* a column of both snapshots goes from 100 distinct values to 80 and is not flagged
W_C23 ==
    /\ Reported
    /\ loc[1].inp.base_col.cardinality = 100
    /\ loc[1].inp.compare_col.cardinality = 80
    /\ 1 \in (DOMAIN loc[1].base) \cap (DOMAIN loc[1].compare)
    /\ 1 \notin loc[1].report.schema_drift.cardinality_changes

\* C24: a column of both snapshots is in null_percentage_changes exactly when its two
\* null percentages differ by more than 5.0, whichever is larger; 10.0 against 15.0
\* is not flagged and 10.0 against 15.01 is
T_C24 ==
    Reported =>
        LET flagged == loc[1].report.schema_drift.null_percentage_changes
            b == loc[1].inp.base_col.null_percentage
            c == loc[1].inp.compare_col.null_percentage
        IN  /\ flagged \subseteq (DOMAIN loc[1].base) \cap (DOMAIN loc[1].compare)
            /\ \A col \in (DOMAIN loc[1].base) \cap (DOMAIN loc[1].compare) :
                  /\ col \in flagged <=>
                        \/ loc[1].base[col].null_percentage
                              - loc[1].compare[col].null_percentage > 500
                        \/ loc[1].compare[col].null_percentage
                              - loc[1].base[col].null_percentage > 500
                  /\ (b = 1000 /\ c \in {500, 1000, 1500}) => col \notin flagged
                  /\ (b = 1000 /\ c \in {499, 1501}) => col \in flagged
                  /\ (b = 1501 /\ c = 1000) => col \in flagged

\* a column of both snapshots goes from 10.0 to 15.0 percent nulls and is not flagged
W_C24 ==
    /\ Reported
    /\ loc[1].inp.base_col.null_percentage = 1000
    /\ loc[1].inp.compare_col.null_percentage = 1500
    /\ 1 \in (DOMAIN loc[1].base) \cap (DOMAIN loc[1].compare)
    /\ 1 \notin loc[1].report.schema_drift.null_percentage_changes

\* C25: has_significant_drift(p_threshold) is true exactly when there is a p-value,
\* it is below p_threshold and similarity_score is below 0.8; it is false for a small
\* p with a similarity of 0.96, for p = 0.2 with a similarity of 0.6, and whenever no
\* DataFrames are passed
T_C25 ==
    Reported =>
        \A col \in DOMAIN loc[1].report.distribution_drifts :
            LET drift == loc[1].report.distribution_drifts[col]
                sim == drift.similarity_score
                significant == has_significant_drift(drift, loc[1].inp.p_threshold)
            IN  /\ significant <=>
                      /\ drift.p_value.some
                      /\ drift.p_value.p < loc[1].inp.p_threshold
                      /\ 5 * sim.n < 4 * sim.d \/ (5 * sim.n = 4 * sim.d /\ sim.shrunk)
                /\ ~loc[1].inp.df.some => ~significant
                /\ (sim.n = 216 /\ sim.d = 225) => ~significant
                /\ (drift.p_value.some /\ drift.p_value.p = 20) => ~significant

\* a p-value of 0.01 and a similarity of 0.6: the drift is significant
W_C25 ==
    /\ Reported
    /\ 1 \in DOMAIN loc[1].report.distribution_drifts
    /\ loc[1].inp.df.some /\ loc[1].inp.df.p = 1
    /\ loc[1].report.distribution_drifts[1].similarity_score.n = 135
    /\ loc[1].report.distribution_drifts[1].similarity_score.d = 225
    /\ has_significant_drift(loc[1].report.distribution_drifts[1], loc[1].inp.p_threshold)

\* C26: in every state reached by save_insight calls from an empty store, and after
\* every load of a snapshot the store wrote, a pair (dataset_id, semantic_hash) is in
\* the semantic index exactly when one and only one insight of that dataset's list
\* has the hash, the index then holds that insight's id, insight_exists is true for
\* exactly those pairs, and the index has no other key
T_C26 ==
    LET hashes == {i.semantic_hash : i \in StoreInsights}
        consistent(S) ==
            /\ DOMAIN S.insight_semantic_index \subseteq Datasets \X hashes
            /\ DOMAIN S.insights_by_dataset \subseteq Datasets
            /\ \A d \in Datasets, h \in hashes :
                  LET lst == list_insights(S, d)
                      having == {i \in 1..Len(lst) : lst[i].semantic_hash = h}
                  IN  /\ <<d, h>> \in DOMAIN S.insight_semantic_index
                            <=> Cardinality(having) = 1
                      /\ insight_exists(S, h, d) <=> Cardinality(having) = 1
                      /\ \A i \in having :
                            S.insight_semantic_index[<<d, h>>] = lst[i].insight_id
    IN  /\ consistent(Store)
        /\ (persist_path /\ disk # NoFile) => consistent(NewStore(persist_path, disk))

\* a store loaded from its snapshot holds two insights of one dataset, both indexed
W_C26 ==
    /\ last.op = "restart"
    /\ \E d \in Datasets :
          /\ Len(list_insights(Store, d)) = 2
          /\ Cardinality({k \in DOMAIN insight_semantic_index : k[1] = d}) = 2

\* C27: the insights_created of every analyze response is the number of insight
\* records the request added to the store
CE_C27 ==
    \A run \in AnalyzeRuns :
        run.r.resp.status = 200 =>
            run.r.resp.body.insights_created =
                Len(list_insights(run.r.S, run.d)) - Len(list_insights(Store, run.d))

\* C28: an analysis record exists only for a (dataset_id, version) that has a schema
\* record, every stored insight labelled (dataset_id, version) has an analysis record
\* for that pair, and an analyze, query or compare request that names a dataset or a
\* version with no schema record is answered 404 and leaves the store as it was
T_C28 ==
    LET Unknown(d, v) ==
            IF v = NoVersion THEN list_versions(Store, d) = <<>>
            ELSE get_schema(Store, d, v) = NoRecord
        NotFound(r) == r.resp.status = 404 /\ r.S = Store
    IN  /\ DOMAIN analyses \subseteq DOMAIN schemas
        /\ \A d \in DOMAIN insights_by_dataset :
              \A i \in 1..Len(insights_by_dataset[d]) :
                  /\ insights_by_dataset[d][i].dataset_id = d
                  /\ <<d, insights_by_dataset[d][i].version>> \in DOMAIN analyses
        /\ \A d \in Datasets, v \in ReqVersions :
              Unknown(d, v) =>
                  /\ \A file \in Files, reply \in SynthReplies, now \in Times :
                        NotFound(analyze(Store, d, v, file, reply, now))
                  /\ \A q \in Questions, reply \in QueryReplies, now \in Times :
                        NotFound(query(Store, d, v, q, reply, now))
                  /\ v # NoVersion =>
                        \A w \in ReqVersions \ {NoVersion} :
                            /\ NotFound(compare(Store, d, v, w))
                            /\ NotFound(compare(Store, d, w, v))

\* an analyze request for a version that was never ingested has just been answered
\* 404, while the store holds an analysis and an insight of an ingested version
W_C28 ==
    /\ last.op = "analyze" /\ last.status = 404
    /\ analyses # EmptyMap
    /\ \E d \in Datasets : list_insights(Store, d) # <<>> /\ Len(list_versions(Store, d)) = 1

\* C29: normalising a normalised dedup key changes nothing, and a dedup key and its
\* normalised form have the same semantic hash
CE_C29 ==
    (pc[1] = "done" /\ loc[1].op = "hash") =>
        /\ normalize_text(loc[1].norm) = loc[1].norm
        /\ semantic_hash(loc[1].norm) = loc[1].sem_hash

\* C30: with no compression client, and with a client whose compress call raises,
\* _maybe_compress_prompt returns the prompt unchanged and raises nothing, so neither
\* synthesize_insights nor answer_query is aborted and the oracle is called with the
\* original prompt
T_C30 ==
    (/\ pc[1] = "done"
     /\ loc[1].op = "prompt"
     /\ ~loc[1].compression_client.some \/ loc[1].compression_client.raises) =>
        /\ ~loc[1].returned.raised
        /\ loc[1].returned.value = loc[1].prompt
        /\ ~loc[1].aborted
        /\ loc[1].llm_called
        /\ loc[1].llm_prompt = loc[1].prompt

W_C30 ==
    /\ pc[1] = "done"
    /\ loc[1].op = "prompt"
    /\ loc[1].method = "answer_query"
    /\ loc[1].compression_client.some
    /\ loc[1].compression_client.raises
    /\ loc[1].compression_client.error = "TimeoutError"
    /\ loc[1].prompt = <<97, 98>>
    /\ loc[1].llm_called
    /\ loc[1].llm_prompt = <<97, 98>>

====
